---- MODULE Spec2Model ----
(***************************************************************************)
(* Model of the book-karaoke front end.                                    *)
(*                                                                         *)
(* KaraokePlayer (the SyncEngine of the specification) is modelled as a    *)
(* state machine over its fields, the host media element it drives and    *)
(* the host's animation-frame queue.  JavaScript runs one handler at a     *)
(* time, and dispatchEvent runs listeners synchronously, so a handler is   *)
(* suspended exactly at its _emit calls: `stack` holds the suspended       *)
(* activations, and a listener may call back into the engine before it     *)
(* returns.                                                                *)
(*                                                                         *)
(* Times are integers in units of 0.1 s.  A fraction n/d (fadeAlpha,       *)
(* progress) is the pair <<n, d>>.  Indices are 0-based as in the source;  *)
(* sequence element i of the source is element i+1 here.                   *)
(***************************************************************************)
EXTENDS Integers, Sequences, FiniteSets, TLC

\* ------------------------------------------------------------------------
\* Program constants (units of 0.1 s)
\* ------------------------------------------------------------------------
PreRoll == 3
PostRoll == 3
LastTail == 10

\* ------------------------------------------------------------------------
\* Bounds of the model
\* ------------------------------------------------------------------------
MaxTime == 4
MaxWords == 2
MaxChunks == 2
MaxDur == 12
MaxRaf == 2
MaxDepth == 2
SeekMid == 6
MaxUrls == 2
NumChunks == 3
MaxTransitions == 3

\* ------------------------------------------------------------------------
\* Timing data
\* ------------------------------------------------------------------------
W(s, e) == [start |-> s, end |-> e]

Max(a, b) == IF a >= b THEN a ELSE b
Min(a, b) == IF a <= b THEN a ELSE b

\* a chunk is well formed when every word has start <= end and the
\* timings do not decrease along the chunk
WellFormedChunk(c) ==
    /\ \A k \in 1..Len(c) : c[k].start <= c[k].end
    /\ \A k \in 1..(Len(c) - 1) : c[k].end <= c[k + 1].start

ChunkStart(c) == c[1].start
ChunkEnd(c) == c[Len(c)].end

\* chunks follow one another in time; an empty chunk carries no timing
WellFormedList(cs) ==
    /\ \A i \in 1..Len(cs) : WellFormedChunk(cs[i])
    /\ \A i, j \in 1..Len(cs) :
          (i < j /\ Len(cs[i]) > 0 /\ Len(cs[j]) > 0)
             => ChunkEnd(cs[i]) <= ChunkStart(cs[j])

GenWords == {W(s, e) : s \in 0..MaxTime, e \in 0..MaxTime}

GenChunks ==
    {c \in UNION {[1..n -> GenWords] : n \in 0..MaxWords} : WellFormedChunk(c)}

GenChunkLists ==
    {cs \in UNION {[1..n -> GenChunks] : n \in 0..MaxChunks} : WellFormedList(cs)}

\* Scenario A/B of the specification: [Hi 0-0.5, there 0.5-1.0]
ScenarioA == << <<W(0, 5), W(5, 10)>> >>

\* shaped after DEMO_CHUNKS: a pause between two words of one chunk (as
\* "year." 9.60 / "Impressive" 9.80) and a chunk that starts at the very
\* time the previous one ends (as "up," 23.30 / "and" 23.30)
DemoShaped == << <<W(4, 5), W(6, 7)>>, <<W(7, 9), W(10, 12)>> >>

\* a list with an empty chunk
WithEmpty == << <<>>, <<W(5, 7)>> >>

TimestampInputs == {ScenarioA, DemoShaped, WithEmpty}

\* ------------------------------------------------------------------------
\* Fractions
\* ------------------------------------------------------------------------
One == <<1, 1>>
Frac(n, d) == <<n, d>>
FracEq(a, b) == a[1] * b[2] = b[1] * a[2]
FracLeq(a, b) == a[1] * b[2] <= b[1] * a[2]

\* ------------------------------------------------------------------------
\* KaraokePlayer: pure parts
\* ------------------------------------------------------------------------

\* setTimestamps: chunks.map(chunk => range)
ChunkRangesOf(cs) ==
    [i \in 1..Len(cs) |->
        IF Len(cs[i]) = 0 THEN [start |-> 0, end |-> 0]
        ELSE [start |-> cs[i][1].start, end |-> cs[i][Len(cs[i])].end]]

\* variant: the last chunk gets the ordinary post-roll
TailOfNoLast(i, n) == PostRoll

\* the tail of chunk i (0-based) of n chunks
TailOf(i, n) == IF i < n - 1 THEN PostRoll ELSE LastTail

\* variant: every fade is taken over the pre-roll length
FadeOutPreRoll(x, d) == Frac(Max(0, PreRoll - x), PreRoll)

\* Math.max(0, 1.0 - x / d)
FadeOut(x, d) == Frac(Max(0, d - x), d)

\* variant: the fade-out is measured from the start of the chunk
RECURSIVE ScanChunksFadeFromStart(_, _, _)
ScanChunksFadeFromStart(t, ranges, i) ==
    IF i >= Len(ranges) THEN [idx |-> -1, fade |-> One]
    ELSE LET cr == ranges[i + 1]
             preStart == cr.start - PreRoll
             postEnd == cr.end + TailOf(i, Len(ranges))
         IN IF t >= preStart /\ t <= postEnd
            THEN [idx |-> i,
                  fade |-> IF t < cr.start THEN FadeOut(cr.start - t, PreRoll)
                           ELSE IF t > cr.start
                                THEN FadeOut(t - cr.start, TailOf(i, Len(ranges)))
                                ELSE One]
            ELSE ScanChunksFadeFromStart(t, ranges, i + 1)

\* _updateTime, "Find active chunk": forward scan from index i with early exit
RECURSIVE ScanChunks(_, _, _)
ScanChunks(t, ranges, i) ==
    IF i >= Len(ranges) THEN [idx |-> -1, fade |-> One]
    ELSE LET cr == ranges[i + 1]
             preStart == cr.start - PreRoll
             postEnd == cr.end + TailOf(i, Len(ranges))
         IN IF t >= preStart /\ t <= postEnd
            THEN [idx |-> i,
                  fade |-> IF t < cr.start THEN FadeOut(cr.start - t, PreRoll)
                           ELSE IF t > cr.end
                                THEN FadeOut(t - cr.end, TailOf(i, Len(ranges)))
                                ELSE One]
            ELSE ScanChunks(t, ranges, i + 1)

FindChunk(t, ranges) == ScanChunks(t, ranges, 0)

\* variant: a word is still active at its end time
RECURSIVE ScanWordsInclusiveEnd(_, _, _)
ScanWordsInclusiveEnd(t, chunk, w) ==
    IF w >= Len(chunk) THEN -1
    ELSE IF t >= chunk[w + 1].start /\ t <= chunk[w + 1].end THEN w
         ELSE ScanWordsInclusiveEnd(t, chunk, w + 1)

\* _updateTime, "Find active word within chunk": forward scan from index w
RECURSIVE ScanWords(_, _, _)
ScanWords(t, chunk, w) ==
    IF w >= Len(chunk) THEN -1
    ELSE IF t >= chunk[w + 1].start /\ t < chunk[w + 1].end THEN w
         ELSE ScanWords(t, chunk, w + 1)

\* variant: past all words the index is not set to the last word
FindWordNoStick(t, cs, chunkIdx) ==
    IF chunkIdx < 0 THEN -1 ELSE ScanWords(t, cs[chunkIdx + 1], 0)

FindWord(t, cs, chunkIdx) ==
    IF chunkIdx < 0 THEN -1
    ELSE LET chunk == cs[chunkIdx + 1]
             found == ScanWords(t, chunk, 0)
         IN IF found = -1 /\ Len(chunk) > 0 /\ t >= chunk[Len(chunk)].end
            THEN Len(chunk) - 1
            ELSE found

\* the duration a media element reports before it has metadata
NaN == 0 - 1

\* progress = duration > 0 ? t / duration : 0
ProgressOf(t, dur) == IF dur > 0 THEN Frac(t, dur) ELSE Frac(0, 1)


\* ------------------------------------------------------------------------
\* State
\* ------------------------------------------------------------------------
VARIABLES
    audio,             \* this.audio is set (not null)
    pos,               \* audio.currentTime
    mediaDur,          \* audio.duration once metadata is available
    metaPending,       \* the media element has not fired loadedmetadata yet
    mediaPlaying,      \* the media element is playing (not paused, not ended)
    chunks,            \* this.chunks
    chunkRanges,       \* this.chunkRanges
    duration,          \* this.duration
    activeChunkIndex,  \* this.activeChunkIndex
    activeWordIndex,   \* this.activeWordIndex
    rafId,             \* this._rafId (0 for null)
    playing,           \* this._playing
    rafQueue,          \* ids of the animation-frame callbacks still scheduled
    stack,             \* suspended activations, innermost last
    raised,            \* the handler that ran last has thrown
    srcBlob,           \* this.audio.src is an object URL ('blob:...')
    objectUrls,        \* object URLs created and not revoked
    promise,           \* the promise of the loadAudio call that created this.audio
    orphan,            \* the promise of a loadAudio call whose media element
                       \* the engine has dropped with its listeners armed
    lastChunkIdx,      \* history: chunk index computed by the latest recomputation
    lastWordIdx,       \* history: word index computed by the latest recomputation
    paged,             \* the KaraokeRenderer (paged renderer) and its container
    tele,              \* the TeleprompterRenderer (continuous renderer)
    search,            \* the search state of BookKaraokeApp
    upload             \* the page's state and section, and the UploadHandler's jobs

vars == <<audio, pos, mediaDur, metaPending, mediaPlaying, chunks, chunkRanges,
          duration, activeChunkIndex, activeWordIndex, rafId, playing,
          rafQueue, stack, raised, srcBlob, objectUrls, promise, orphan,
          lastChunkIdx, lastWordIdx, paged, tele, search, upload>>

\* the engine and its host, without the renderer
engineVars ==
    <<audio, pos, mediaDur, metaPending, mediaPlaying, chunks, chunkRanges,
      duration, activeChunkIndex, activeWordIndex, rafId, playing,
      rafQueue, stack, raised, srcBlob, objectUrls, promise, orphan,
      lastChunkIdx, lastWordIdx>>

World ==
    [audio |-> audio, pos |-> pos, mediaDur |-> mediaDur,
     metaPending |-> metaPending, mediaPlaying |-> mediaPlaying,
     chunks |-> chunks, chunkRanges |-> chunkRanges, duration |-> duration,
     activeChunkIndex |-> activeChunkIndex, activeWordIndex |-> activeWordIndex,
     rafId |-> rafId, playing |-> playing, rafQueue |-> rafQueue,
     stack |-> stack, raised |-> raised,
     srcBlob |-> srcBlob, objectUrls |-> objectUrls,
     promise |-> promise, orphan |-> orphan,
     lastChunkIdx |-> lastChunkIdx, lastWordIdx |-> lastWordIdx]

\* the engine and its host take the values of w
EngineBecomes(w) ==
    /\ audio' = w.audio
    /\ pos' = w.pos
    /\ mediaDur' = w.mediaDur
    /\ metaPending' = w.metaPending
    /\ mediaPlaying' = w.mediaPlaying
    /\ chunks' = w.chunks
    /\ chunkRanges' = w.chunkRanges
    /\ duration' = w.duration
    /\ activeChunkIndex' = w.activeChunkIndex
    /\ activeWordIndex' = w.activeWordIndex
    /\ rafId' = w.rafId
    /\ playing' = w.playing
    /\ rafQueue' = w.rafQueue
    /\ stack' = w.stack
    /\ raised' = w.raised
    /\ srcBlob' = w.srcBlob
    /\ objectUrls' = w.objectUrls
    /\ promise' = w.promise
    /\ orphan' = w.orphan
    /\ lastChunkIdx' = w.lastChunkIdx
    /\ lastWordIdx' = w.lastWordIdx

Becomes(w) ==
    /\ EngineBecomes(w)
    /\ UNCHANGED <<paged, tele, search, upload>>

\* ------------------------------------------------------------------------
\* Activations and event dispatch
\* ------------------------------------------------------------------------
UpdatePcs == {"chunkchange", "wordchange", "timeupdate"}

\* An activation suspended inside _emit(pc, detail): the event being
\* dispatched is pc, and its detail is read from the fields.  After `caller`
\* come the locals of _updateTime (t, newChunkIdx, newWordIdx, fadeAlpha,
\* progress, prevChunk); `time` is the detail of 'seek'; then the history of
\* this recomputation: the indices computed by the recomputation before it
\* and the number of chunkchange and wordchange events it dispatched.
Frame(pc) ==
    [pc |-> pc, caller |-> "none", t |-> 0, nc |-> -1, nw |-> -1,
     fa |-> One, progress |-> Frac(0, 1), prevChunk |-> -1, time |-> 0,
     prevC |-> -1, prevW |-> -1, cc |-> 0, wc |-> 0, called |-> FALSE]

Top(w) == w.stack[Len(w.stack)]
Pop(w) == [w EXCEPT !.stack = SubSeq(@, 1, Len(@) - 1)]

\* _emit(name, detail): dispatchEvent runs the listeners before it returns
Emit(w, f) == [w EXCEPT !.stack = Append(@, f)]

\* ------------------------------------------------------------------------
\* Host primitives
\* ------------------------------------------------------------------------
RafIds == 1..(MaxRaf + 2)

\* requestAnimationFrame returns an id that no scheduled callback has and
\* that the engine does not hold
FreshId(w) ==
    CHOOSE n \in RafIds :
        /\ n \notin w.rafQueue \cup {w.rafId}
        /\ \A m \in 1..(n - 1) : m \in w.rafQueue \cup {w.rafId}

RequestAnimationFrame(w) ==
    LET id == FreshId(w)
    IN [w EXCEPT !.rafQueue = @ \cup {id}, !.rafId = id]

\* audio.play()
MediaPlay(w) == [w EXCEPT !.mediaPlaying = TRUE]

MediaPause(w) == [w EXCEPT !.mediaPlaying = FALSE]

\* ------------------------------------------------------------------------
\* KaraokePlayer operations, each run up to its next _emit
\* ------------------------------------------------------------------------
StopLoop(w) ==
    IF w.rafId # 0
    THEN [w EXCEPT !.rafQueue = @ \ {w.rafId}, !.rafId = 0]
    ELSE w

StartLoop(w) == RequestAnimationFrame(StopLoop(w))

\* what follows _updateTime in its caller
AfterUpdate(w, caller) ==
    IF caller = "tick" THEN RequestAnimationFrame(w)
    ELSE IF ~w.audio THEN [w EXCEPT !.raised = TRUE]
         ELSE Emit(w, [Frame("seek") EXCEPT !.time = w.pos])

TimePart(w, f) ==
    Emit(w, [f EXCEPT !.pc = "timeupdate", !.called = FALSE])

WordPart(w, f) ==
    IF f.nw # w.activeWordIndex
    THEN Emit([w EXCEPT !.activeWordIndex = f.nw],
              [f EXCEPT !.pc = "wordchange", !.wc = 1, !.called = FALSE])
    ELSE TimePart(w, f)

ChunkPart(w, f) ==
    IF f.nc # w.activeChunkIndex
    THEN Emit([w EXCEPT !.activeChunkIndex = f.nc],
              [f EXCEPT !.pc = "chunkchange", !.cc = 1, !.called = FALSE,
                        !.prevChunk = w.activeChunkIndex])
    ELSE WordPart(w, f)

UpdateTime(w, caller) ==
    IF ~w.audio THEN AfterUpdate(w, caller)
    ELSE LET t == w.pos
             found == FindChunk(t, w.chunkRanges)
             word == FindWord(t, w.chunks, found.idx)
             f == [Frame("begin") EXCEPT
                      !.caller = caller, !.t = t, !.nc = found.idx,
                      !.nw = word, !.fa = found.fade,
                      !.progress = ProgressOf(t, w.duration),
                      !.prevC = w.lastChunkIdx, !.prevW = w.lastWordIdx]
         IN ChunkPart([w EXCEPT !.lastChunkIdx = found.idx,
                                !.lastWordIdx = word], f)

\* resolve() of the promise whose 'loadedmetadata' listener is running
Resolve(w, caller) ==
    IF caller = "orphan" THEN [w EXCEPT !.orphan = "resolved"]
    ELSE [w EXCEPT !.promise = "resolved"]

\* the listeners of the innermost pending _emit have returned
Resume(w) ==
    LET f == Top(w)
        w1 == Pop(w)
    IN CASE f.pc = "chunkchange" -> WordPart(w1, f)
         [] f.pc = "wordchange" -> TimePart(w1, f)
         [] f.pc = "timeupdate" -> AfterUpdate(w1, f.caller)
         [] f.pc = "loaded" -> Resolve(w1, f.caller)
         [] OTHER -> w1

Play(w) ==
    IF ~w.audio THEN w
    ELSE Emit(StartLoop([MediaPlay(w) EXCEPT !.playing = TRUE]),
              Frame("play"))

Pause(w) ==
    IF ~w.audio THEN w
    ELSE Emit(StopLoop([MediaPause(w) EXCEPT !.playing = FALSE]),
              Frame("pause"))

Toggle(w) == IF w.playing THEN Pause(w) ELSE Play(w)

Clamp(time, dur) == Max(0, Min(time, dur))

Seek(w, time) ==
    IF ~w.audio THEN w
    ELSE UpdateTime([w EXCEPT !.pos = Clamp(time, w.duration)], "seek")

SeekToChunk(w, index) ==
    IF index >= 0 /\ index < Len(w.chunkRanges)
    THEN Seek(w, w.chunkRanges[index + 1].start)
    ELSE w

\* the call runs to its end, the listeners of each _emit doing nothing
RECURSIVE Returned(_)
Returned(w) == IF w.stack = <<>> THEN w ELSE Returned(Resume(w))

\* an element the engine lets go of keeps the listeners loadAudio gave it
Drop(w) ==
    IF w.audio /\ w.promise = "pending"
    THEN [w EXCEPT !.orphan = "pending", !.promise = "none"]
    ELSE [w EXCEPT !.promise = "none"]

\* variant: the engine's media element is used without the null check
DestroyNoGuard(w) ==
    LET w1 == StopLoop(w)
    IN IF w1.audio
       THEN [Drop(MediaPause(w1)) EXCEPT
                !.objectUrls = IF w1.srcBlob THEN @ - 1 ELSE @,
                !.srcBlob = FALSE, !.audio = FALSE, !.pos = 0]
       ELSE [w1 EXCEPT !.raised = TRUE]

Destroy(w) ==
    LET w1 == StopLoop(w)
    IN IF w1.audio
       THEN [Drop(MediaPause(w1)) EXCEPT
                !.objectUrls = IF w1.srcBlob THEN @ - 1 ELSE @,
                !.srcBlob = FALSE, !.audio = FALSE, !.pos = 0]
       ELSE w1

SetTimestamps(w, cs) ==
    Emit([w EXCEPT !.chunks = cs, !.chunkRanges = ChunkRangesOf(cs)],
         Frame("timestampsloaded"))

\* the body of loadAudio up to the pending promise; blob: src is a Blob
LoadAudioStart(w, d, blob) ==
    [Drop(w) EXCEPT !.audio = TRUE, !.pos = 0, !.mediaPlaying = FALSE,
                    !.metaPending = TRUE, !.mediaDur = d,
                    !.promise = "pending", !.srcBlob = blob,
                    !.objectUrls = IF blob THEN @ + 1 ELSE @]

\* the 'loadedmetadata' listener installed by loadAudio, run for the
\* element the engine holds
OnLoadedMetadata(w) ==
    Emit([w EXCEPT !.metaPending = FALSE, !.duration = w.mediaDur],
         [Frame("loaded") EXCEPT !.caller = "load"])

\* the same listener run for an element the engine has dropped: it reads
\* this.audio, which is null or another element by now
OnOrphanMetadata(w) ==
    IF ~w.audio THEN [w EXCEPT !.raised = TRUE, !.orphan = "thrown"]
    ELSE Emit([w EXCEPT !.duration = IF w.metaPending THEN NaN
                                     ELSE w.mediaDur],
              [Frame("loaded") EXCEPT !.caller = "orphan"])

\* the 'error' listener installed by loadAudio: reject(new Error(...))
OnError(w) == [w EXCEPT !.promise = "rejected"]

OnOrphanError(w) == [w EXCEPT !.orphan = "rejected"]

\* the 'ended' listener installed by loadAudio
OnEnded(w) ==
    Emit(StopLoop([w EXCEPT !.mediaPlaying = FALSE, !.playing = FALSE]),
         Frame("ended"))

\* the animation-frame callback `tick` of _startLoop
Tick(w) == UpdateTime(w, "tick")


\* ------------------------------------------------------------------------
\* KaraokeRenderer (the paged renderer)
\*
\* The renderer is given NumChunks chunks, none of them empty.  wordSpans
\* is the index of the chunk whose word spans are in the container, -1 for
\* no spans.  classes are the animation classes on the container; listeners
\* are the armed once-listeners of the container's 'animationend', in the
\* order they were added, and timers the pending timeouts, which all have
\* the same delay and so fire in the order they were set.  History: started
\* counts the transitions begun, every callback carries the number tr of
\* the transition that created it, and phase is the phase the latest
\* transition is in.
\* ------------------------------------------------------------------------
\* the words the page shows; a word is a sequence of characters
Texts ==
    << <<"T", "h", "e">>, <<"o", "t", "h", "e", "r">>, <<"c", "a", "t">> >>

Word(text, s, e) == [word |-> text, start |-> s, end |-> e]

\* the timing data given to setChunks and setTimestamps: chunk ci (0-based)
\* starts at ChunkGap * ci; an even chunk has two words, an odd chunk one
ChunkGap == 6

PageChunk(ci) ==
    LET b == ChunkGap * ci
    IN IF ci % 2 = 0
       THEN <<Word(Texts[((2 * ci) % 3) + 1], b, b + 2),
              Word(Texts[((2 * ci + 1) % 3) + 1], b + 2, b + 4)>>
       ELSE <<Word(Texts[((2 * ci) % 3) + 1], b + 1, b + 3)>>

PagedChunks == [i \in 1..NumChunks |-> PageChunk(i - 1)]

\* the length of the audio the page loads with the timing data
PageDuration == ChunkGap * NumChunks

\* the timing data of another project: one chunk of one word
ReloadChunks == << <<Word(Texts[3], 1, 3)>> >>

\* every chunk the page hands to the renderer; a chunk object is named by
\* its place in this sequence (0-based), whichever list it came with
Library == PagedChunks \o ReloadChunks

\* the chunk lists by number, 1: PagedChunks, 2: ReloadChunks, and the
\* place of a list's first chunk in Library
ListOf(id) == IF id = 1 THEN PagedChunks ELSE ReloadChunks
ListFirst(id) == IF id = 1 THEN 0 ELSE Len(PagedChunks)

StateClasses == {"word-active", "word-spoken", "word-upcoming"}

\* the state class updateTime gives a span for the timing wordTiming
Classify(time, wordTiming) ==
    IF time >= wordTiming.start /\ time < wordTiming.end THEN "word-active"
    ELSE IF time >= wordTiming.end THEN "word-spoken"
    ELSE "word-upcoming"

\* new KaraokeRenderer(containerEl, progressBarEl) with setChunks(PagedChunks)
\* done; container tells whether containerEl is an element, chunks is the
\* number of the list in this.chunks and wordSpans names the chunk whose
\* spans are in the container (-1: none).  classList[i] is the class list of
\* wordSpans[i - 1], opacity the container's style.opacity, fontSize its
\* style.fontSize (0: not set) and settings the font size last applied.
\* raised records that a call ended in a TypeError.
Renderer(container) ==
    [chunks |-> 1,
     currentChunkIndex |-> -1, wordSpans |-> -1, transitioning |-> FALSE,
     classes |-> {}, listeners |-> <<>>, timers |-> <<>>,
     started |-> 0, phase |-> "idle",
     container |-> container, raised |-> FALSE,
     classList |-> <<>>, opacity |-> One, settings |-> 0, fontSize |-> 0]

NewRenderer == Renderer(TRUE)

\* setChunks(chunks) with list number id
SetChunks(r, id) == [r EXCEPT !.chunks = id]

Callback(fn, chunk, tr) == [fn |-> fn, chunk |-> chunk, tr |-> tr]

\* a property of the container is read while the container is null
Throw(r) == [r EXCEPT !.raised = TRUE]

RenderChunk(r, chunk) ==
    IF ~r.container THEN Throw(r)
    ELSE [r EXCEPT !.wordSpans = chunk,
                   !.classList = [i \in 1..Len(Library[chunk + 1]) |->
                                     {"word-upcoming"}],
                   !.opacity = One]

Clear(r) ==
    IF ~r.container THEN Throw(r)
    ELSE [r EXCEPT !.wordSpans = -1, !.classList = <<>>,
                   !.currentChunkIndex = -1]

TransitionChunk(r, chunk) ==
    IF r.transitioning THEN r
    ELSE IF ~r.container THEN Throw([r EXCEPT !.transitioning = TRUE])
    ELSE [r EXCEPT
            !.transitioning = TRUE,
            !.classes = @ \cup {"chunk-fade-out"},
            !.listeners = Append(@, Callback("onFadeOut", chunk, r.started + 1)),
            !.timers = Append(@, Callback("fallbackOut", chunk, r.started + 1)),
            !.started = @ + 1,
            !.phase = "out"]

ShowChunk(r, chunkIndex, animate) ==
    IF chunkIndex = r.currentChunkIndex THEN r
    ELSE IF chunkIndex < 0 \/ chunkIndex >= Len(ListOf(r.chunks))
         THEN Clear(r)
    ELSE LET chunk == ListFirst(r.chunks) + chunkIndex
             prevIndex == r.currentChunkIndex
             r1 == [r EXCEPT !.currentChunkIndex = chunkIndex]
         IN IF animate /\ prevIndex >= 0
            THEN TransitionChunk(r1, chunk)
            ELSE RenderChunk(r1, chunk)

\* updateTime(time, chunkIndex, wordIndex, fadeAlpha); wordIndex is not used
PagedUpdateTime(r, time, chunkIndex, fadeAlpha) ==
    LET r1 == IF chunkIndex # r.currentChunkIndex
              THEN ShowChunk(r, chunkIndex, TRUE) ELSE r
    IN IF r1.raised THEN r1
       ELSE IF chunkIndex < 0 \/ chunkIndex >= Len(ListOf(r1.chunks))
            THEN r1
       ELSE IF ~r1.container THEN Throw(r1)
       ELSE LET chunk == ListOf(r1.chunks)[chunkIndex + 1]
            IN [r1 EXCEPT
                  !.classList =
                      [i \in 1..Len(r1.classList) |->
                          IF i <= Len(chunk)
                          THEN (r1.classList[i] \ StateClasses)
                                  \cup {Classify(time, chunk[i])}
                          ELSE r1.classList[i]],
                  !.opacity = IF FracLeq(One, fadeAlpha) THEN One
                              ELSE fadeAlpha]

\* applySettings(settings); fontSize = 0 stands for settings without one
ApplySettings(r, fontSize) ==
    LET r1 == [r EXCEPT !.settings = fontSize]
    IN IF fontSize = 0 THEN r1
       ELSE IF ~r1.container THEN Throw(r1)
       ELSE [r1 EXCEPT !.fontSize = fontSize]

\* the closures of _transitionChunk
OnFadeOut(r, cb) ==
    LET r1 == RenderChunk([r EXCEPT !.classes = @ \ {"chunk-fade-out"}],
                          cb.chunk)
    IN [r1 EXCEPT
          !.classes = @ \cup {"chunk-fade-in"},
          !.listeners = Append(@, Callback("onFadeIn", cb.chunk, cb.tr)),
          !.timers = Append(@, Callback("fallbackIn", cb.chunk, cb.tr)),
          !.phase = IF cb.tr = r.started THEN "in" ELSE @]

OnFadeIn(r, cb) ==
    [r EXCEPT !.classes = @ \ {"chunk-fade-in"},
              !.transitioning = FALSE,
              !.phase = IF cb.tr = r.started THEN "idle" ELSE @]

\* variant: the first fallback swaps the content and leaves the flag set
FallbackOutKeepsFlag(r, cb) ==
    [RenderChunk([r EXCEPT !.classes = @ \ {"chunk-fade-out"}], cb.chunk)
        EXCEPT !.phase = IF cb.tr = r.started /\ r.phase = "out"
                         THEN "idle" ELSE @]

FallbackOut(r, cb) ==
    [RenderChunk([r EXCEPT !.classes = @ \ {"chunk-fade-out"}], cb.chunk)
        EXCEPT !.transitioning = FALSE,
               !.phase = IF cb.tr = r.started /\ r.phase = "out"
                         THEN "idle" ELSE @]

FallbackIn(r, cb) ==
    [r EXCEPT !.classes = @ \ {"chunk-fade-in"},
              !.transitioning = FALSE,
              !.phase = IF cb.tr = r.started THEN "idle" ELSE @]

RunCallback(r, cb) ==
    CASE cb.fn = "onFadeOut" -> OnFadeOut(r, cb)
      [] cb.fn = "onFadeIn" -> OnFadeIn(r, cb)
      [] cb.fn = "fallbackOut" -> FallbackOut(r, cb)
      [] cb.fn = "fallbackIn" -> FallbackIn(r, cb)

\* 'animationend' on the container: the listeners armed when the event is
\* dispatched run in order, each once; one added meanwhile waits for the
\* next event
RECURSIVE RunListeners(_, _, _)
RunListeners(r, ls, k) ==
    IF k > Len(ls) THEN r
    ELSE RunListeners(RunCallback(r, ls[k]), ls, k + 1)

DispatchAnimationEnd(r) ==
    RunListeners([r EXCEPT !.listeners = <<>>], r.listeners, 1)

\* the oldest pending timeout fires
FireTimer(r) ==
    RunCallback([r EXCEPT !.timers = Tail(@)], Head(r.timers))

\* everything outstanding runs, with nothing else in between: the timeouts
\* before the animation events
RECURSIVE SettleTimersFirst(_)
SettleTimersFirst(r) ==
    IF r.timers # <<>> THEN SettleTimersFirst(FireTimer(r))
    ELSE IF r.listeners # <<>>
         THEN SettleTimersFirst(DispatchAnimationEnd(r))
    ELSE r

\* the same with the animation events before the timeouts
RECURSIVE SettleEventsFirst(_)
SettleEventsFirst(r) ==
    IF r.listeners # <<>> THEN SettleEventsFirst(DispatchAnimationEnd(r))
    ELSE IF r.timers # <<>> THEN SettleEventsFirst(FireTimer(r))
    ELSE r

\* ------------------------------------------------------------------------
\* TeleprompterRenderer (the ContinuousRenderer of the specification)
\*
\* The renderer is given the chunks PagedChunks; no formatting is set.
\* allSpans[i + 1] is the class list of the span with flat index i.  A
\* timeout is the time left until it is due (0.1 s units), NoTimer when
\* none is pending; a timeout that is due fires at some later moment.
\* scrollThrottleTimer tells whether this._scrollThrottleTimer holds a
\* timer id (clearTimeout leaves the id in the field).  History: scrolls
\* counts the scrollIntoView calls, sinceScroll and sinceGesture the time
\* since the latest one and since the latest gesture, touched the flat
\* indices whose class list the latest retagging updateTime wrote, and
\* rebuilt tells that build has run since the latest gesture.
\* ------------------------------------------------------------------------
ThrottleDelay == 3
CooldownDelay == 30
NoTimer == 0 - 1

Teleprompter(container) ==
    [container |-> container, raised |-> FALSE,
     allSpans |-> <<>>, chunkWordOffsets |-> <<>>, prevFlatIndex |-> -1,
     scrollEl |-> FALSE, titles |-> {}, autoScrollEnabled |-> TRUE,
     scrollThrottleTimer |-> FALSE, throttleLeft |-> NoTimer,
     userLeft |-> NoTimer, built |-> FALSE, fontSize |-> 0,
     scrolls |-> 0, sinceScroll |-> ThrottleDelay,
     sinceGesture |-> CooldownDelay, touched |-> {}, rebuilt |-> FALSE]

NewTeleprompter == Teleprompter(TRUE)

RECURSIVE Offsets(_, _, _)
\* the flat index at which each of the chunks from ci on starts
Offsets(cs, ci, flatIdx) ==
    IF ci > Len(cs) THEN <<>>
    ELSE <<flatIdx>> \o Offsets(cs, ci + 1, flatIdx + Len(cs[ci]))

RECURSIVE CountWords(_, _)
CountWords(cs, ci) ==
    IF ci > Len(cs) THEN 0 ELSE Len(cs[ci]) + CountWords(cs, ci + 1)

\* build(chapters); chapters is the set of the start_chunk values that
\* carry a title
Build(t, chapters) ==
    IF ~t.container THEN [t EXCEPT !.raised = TRUE]
    ELSE [t EXCEPT
            !.allSpans = [i \in 1..CountWords(PagedChunks, 1) |->
                             {"word-upcoming"}],
            !.chunkWordOffsets = Offsets(PagedChunks, 1, 0),
            !.prevFlatIndex = -1,
            !.autoScrollEnabled = TRUE,
            !.scrollEl = TRUE,
            !.titles = chapters \cap 0..(Len(PagedChunks) - 1),
            !.built = TRUE,
            !.rebuilt = TRUE]

\* the class list of span i after the range loop of updateTime
Retag(cl, i, flatIndex) ==
    (cl \ StateClasses) \cup
        {IF i < flatIndex THEN "word-spoken"
         ELSE IF i = flatIndex THEN "word-active"
         ELSE "word-upcoming"}

\* the class list after the backfill loop
Backfill(cl) == (cl \ {"word-active", "word-upcoming"}) \cup {"word-spoken"}

\* variant: only the previous and the new index are retagged
RetagRangeEnds(t, lo, hi, flatIndex) ==
    [t EXCEPT
       !.allSpans = [k \in 1..Len(t.allSpans) |->
                        IF k - 1 = lo \/ k - 1 = hi
                        THEN Retag(t.allSpans[k], k - 1, flatIndex)
                        ELSE t.allSpans[k]],
       !.touched = {i \in {lo, hi} : i < Len(t.allSpans)}]

\* variant: every span is retagged on every change
RetagRangeAll(t, lo, hi, flatIndex) ==
    [t EXCEPT
       !.allSpans = [k \in 1..Len(t.allSpans) |->
                        Retag(t.allSpans[k], k - 1, flatIndex)],
       !.touched = 0..(Len(t.allSpans) - 1)]

\* "for (let i = lo; i <= hi; i++)" of updateTime
RetagRange(t, lo, hi, flatIndex) ==
    [t EXCEPT
       !.allSpans = [k \in 1..Len(t.allSpans) |->
                        IF k - 1 >= lo /\ k - 1 <= hi
                        THEN Retag(t.allSpans[k], k - 1, flatIndex)
                        ELSE t.allSpans[k]],
       !.touched = {i \in lo..hi : i < Len(t.allSpans)}]

\* variant: a scroll is issued whenever auto-scroll is enabled
MayScrollUnthrottled(t) == t.autoScrollEnabled

\* "if (this._autoScrollEnabled && !this._scrollThrottleTimer)"
MayScroll(t) == t.autoScrollEnabled /\ ~t.scrollThrottleTimer

\* "Auto-scroll: throttle to max once per 300ms"
AutoScroll(t, flatIndex) ==
    IF ~MayScroll(t) THEN t
    ELSE LET issued == flatIndex < Len(t.allSpans) /\ t.scrollEl
         IN [t EXCEPT
               !.scrolls = IF issued THEN @ + 1 ELSE @,
               !.sinceScroll = IF issued THEN 0 ELSE @,
               !.scrollThrottleTimer = TRUE,
               !.throttleLeft = ThrottleDelay]

\* updateTime(time, chunkIndex, wordIndex, fadeAlpha); time and fadeAlpha
\* are not used
TeleUpdateTime(t, chunkIndex, wordIndex) ==
    IF ~t.built \/ chunkIndex < 0 \/ wordIndex < 0 THEN t
    ELSE IF chunkIndex >= Len(t.chunkWordOffsets) THEN t
    ELSE LET flatIndex == t.chunkWordOffsets[chunkIndex + 1] + wordIndex
             prevFlat == t.prevFlatIndex
             lo == Min(IF prevFlat < 0 THEN 0 ELSE prevFlat, flatIndex)
             hi == Max(IF prevFlat < 0 THEN 0 ELSE prevFlat, flatIndex)
             t1 == RetagRange([t EXCEPT !.prevFlatIndex = flatIndex],
                              lo, hi, flatIndex)
             t2 == IF prevFlat < 0
                   THEN [t1 EXCEPT
                           !.allSpans =
                               [k \in 1..Len(t1.allSpans) |->
                                   IF k - 1 < flatIndex
                                   THEN Backfill(t1.allSpans[k])
                                   ELSE t1.allSpans[k]],
                           !.touched = @ \cup
                               {i \in 0..(flatIndex - 1) :
                                   i < Len(t1.allSpans)}]
                   ELSE t1
         IN IF flatIndex = prevFlat THEN t
            ELSE IF prevFlat < 0 /\ flatIndex > Len(t.allSpans)
                 THEN [t2 EXCEPT !.raised = TRUE]
                 ELSE AutoScroll(t2, flatIndex)

\* applySettings(settings); fontSize = 0 stands for settings without one
TeleApplySettings(t, fontSize) ==
    IF fontSize = 0 THEN t
    ELSE IF ~t.container THEN [t EXCEPT !.raised = TRUE]
    ELSE [t EXCEPT !.fontSize = fontSize]

\* destroy()
TeleDestroy(t) ==
    [t EXCEPT !.throttleLeft = NoTimer, !.userLeft = NoTimer,
              !.built = FALSE, !.allSpans = <<>>,
              !.chunkWordOffsets = <<>>, !.prevFlatIndex = -1]

\* variant: a gesture during the cooldown leaves the pending timeout alone
SuppressNoRestart(t) ==
    [t EXCEPT !.autoScrollEnabled = FALSE,
              !.userLeft = IF @ = NoTimer THEN CooldownDelay ELSE @,
              !.sinceGesture = 0, !.rebuilt = FALSE]

\* suppressAutoScroll: 'wheel' or 'touchmove' on the scroll wrapper
SuppressAutoScroll(t) ==
    [t EXCEPT !.autoScrollEnabled = FALSE, !.userLeft = CooldownDelay,
              !.sinceGesture = 0, !.rebuilt = FALSE]

\* the timeout set by updateTime fires
ThrottleTimeout(t) ==
    [t EXCEPT !.scrollThrottleTimer = FALSE, !.throttleLeft = NoTimer]

\* the timeout set by suppressAutoScroll fires
UserScrollTimeout(t) ==
    [t EXCEPT !.autoScrollEnabled = TRUE, !.userLeft = NoTimer]

\* 0.1 s passes
Elapse(t) ==
    [t EXCEPT !.throttleLeft = IF @ > 0 THEN @ - 1 ELSE @,
              !.userLeft = IF @ > 0 THEN @ - 1 ELSE @,
              !.sinceScroll = Min(@ + 1, ThrottleDelay),
              !.sinceGesture = Min(@ + 1, CooldownDelay)]

\* ------------------------------------------------------------------------
\* BookKaraokeApp: search
\*
\* The page as init() wires it: one KaraokePlayer, one KaraokeRenderer and
\* the search state.  An app value a holds the three: a.w the engine's
\* world, a.r the renderer, a.s the search state.  The listeners the page
\* gives the engine call the renderer only, so a call into the engine runs
\* to its end with the listeners of each _emit applied in between.
\* ------------------------------------------------------------------------
LeadIn == 3

SearchClasses == {"search-match", "search-current"}

NewSearch == [searchMatches |-> <<>>, searchCurrent |-> -1]

\* _wirePlayerEvents: what the page's listeners of the event of frame f do
AppListeners(r, f) ==
    CASE f.pc = "chunkchange" -> ShowChunk(r, f.nc, TRUE)
      [] f.pc = "timeupdate" -> PagedUpdateTime(r, f.t, f.nc, f.fa)
      [] OTHER -> r

\* the engine runs on, every _emit dispatching to the page's listeners
RECURSIVE AppDispatch(_)
AppDispatch(a) ==
    IF a.w.stack = <<>> THEN a
    ELSE AppDispatch([a EXCEPT !.r = AppListeners(a.r, Top(a.w)),
                               !.w = Resume(a.w)])

\* this.player.seek(time)
AppSeek(a, time) == AppDispatch([a EXCEPT !.w = Seek(a.w, time)])

\* String.prototype.toLowerCase, character by character
LowerChar(c) ==
    CASE c = "A" -> "a" [] c = "C" -> "c" [] c = "E" -> "e"
      [] c = "H" -> "h" [] c = "O" -> "o" [] c = "R" -> "r"
      [] c = "T" -> "t" [] OTHER -> c

ToLowerCase(str) == [k \in 1..Len(str) |-> LowerChar(str[k])]

\* String.prototype.trim
RECURSIVE TrimStart(_)
TrimStart(str) ==
    IF str # <<>> /\ str[1] = " " THEN TrimStart(Tail(str)) ELSE str

RECURSIVE TrimEnd(_)
TrimEnd(str) ==
    IF str # <<>> /\ str[Len(str)] = " "
    THEN TrimEnd(SubSeq(str, 1, Len(str) - 1)) ELSE str

Trim(str) == TrimEnd(TrimStart(str))

\* String.prototype.includes
Includes(str, q) ==
    \E k \in 0..(Len(str) - Len(q)) : SubSeq(str, k + 1, k + Len(q)) = q

\* the % of JavaScript: the result takes the sign of the dividend
JsMod(x, n) == IF x >= 0 THEN x % n ELSE 0 - ((0 - x) % n)

\* variant: only the 'current' mark is taken off
ClearCurrentOnly(r) ==
    [r EXCEPT !.classList = [k \in 1..Len(@) |-> @[k] \ {"search-current"}]]

\* _clearSearchHighlights: the spans in the document are the renderer's
ClearSearchHighlights(r) ==
    [r EXCEPT !.classList = [k \in 1..Len(@) |-> @[k] \ SearchClasses]]

\* the loop of _highlightSearchInChunk from match i (0-based) on
RECURSIVE HighlightFrom(_, _, _, _, _)
HighlightFrom(r, matches, i, chunkIndex, currentMatchIdx) ==
    IF i >= Len(matches) THEN r
    ELSE LET m == matches[i + 1]
             r1 == IF m.chunkIndex = chunkIndex
                      /\ m.wordIndex < Len(r.classList)
                   THEN [r EXCEPT !.classList[m.wordIndex + 1] =
                            @ \cup (IF i = currentMatchIdx
                                    THEN SearchClasses
                                    ELSE {"search-match"})]
                   ELSE r
         IN HighlightFrom(r1, matches, i + 1, chunkIndex, currentMatchIdx)

\* _highlightSearchInChunk(chunkIndex, currentMatchIdx)
HighlightSearchInChunk(a, chunkIndex, currentMatchIdx) ==
    [a EXCEPT !.r = HighlightFrom(ClearSearchHighlights(a.r),
                                  a.s.searchMatches, 0, chunkIndex,
                                  currentMatchIdx)]

\* _goToSearchMatch(idx)
GoToSearchMatch(a, idx) ==
    IF idx < 0 \/ idx >= Len(a.s.searchMatches) THEN a
    ELSE LET match == a.s.searchMatches[idx + 1]
             a1 == AppSeek(a, Max(0, match.start - LeadIn))
             a2 == [a1 EXCEPT !.r = ShowChunk(a1.r, match.chunkIndex, FALSE)]
         IN HighlightSearchInChunk(a2, match.chunkIndex, idx)

\* the loops of _runSearch from word wi of chunk ci (0-based) on
RECURSIVE FindMatches(_, _, _, _)
FindMatches(cs, ci, wi, q) ==
    IF ci >= Len(cs) THEN <<>>
    ELSE IF wi >= Len(cs[ci + 1]) THEN FindMatches(cs, ci + 1, 0, q)
    ELSE LET rest == FindMatches(cs, ci, wi + 1, q)
         IN IF Includes(ToLowerCase(cs[ci + 1][wi + 1].word), q)
            THEN <<[chunkIndex |-> ci, wordIndex |-> wi,
                    start |-> cs[ci + 1][wi + 1].start]>> \o rest
            ELSE rest

\* variant: the query is matched as typed
NormalizeAsTyped(query) == Trim(query)

\* "query.trim().toLowerCase()"
Normalize(query) == ToLowerCase(Trim(query))

\* _runSearch(query)
RunSearch(a, query) ==
    LET a0 == [a EXCEPT !.r = ClearSearchHighlights(a.r),
                        !.s = NewSearch]
        q == Normalize(query)
        found == FindMatches(a0.w.chunks, 0, 0, q)
    IN IF q = <<>> THEN a0
       ELSE IF Len(found) > 0
            THEN GoToSearchMatch(
                     [a0 EXCEPT !.s = [searchMatches |-> found,
                                       searchCurrent |-> 0]], 0)
            ELSE a0

\* variant: the cursor stops at the ends of the list
StepClamped(cur, direction, n) == Max(0, Min(cur + direction, n - 1))

\* the cursor after a step over n matches
Step(cur, direction, n) == JsMod(cur + direction + n, n)

\* _searchNav(direction)
SearchNav(a, direction) ==
    IF Len(a.s.searchMatches) = 0 THEN a
    ELSE LET cur == Step(a.s.searchCurrent, direction,
                         Len(a.s.searchMatches))
         IN GoToSearchMatch([a EXCEPT !.s.searchCurrent = cur], cur)

\* loadProject(audioUrl, timestamps, formatting) up to its await;
\* timestamps is the list with number id and the audio lasts d
LoadProject(a, id, d) ==
    LET a0 == [a EXCEPT !.u.section = "player", !.u.state = "playing"]
        a1 == AppDispatch([a0 EXCEPT !.w = SetTimestamps(@, ListOf(id))])
    IN [a1 EXCEPT !.r = SetChunks(@, id),
                  !.w = LoadAudioStart(@, d, FALSE)]

\* the audio gets its metadata, the promise of loadAudio resolves and
\* loadProject goes on after its await
LoadProjectResumes(a) ==
    LET a1 == AppDispatch([a EXCEPT !.w = OnLoadedMetadata(@)])
    IN [a1 EXCEPT !.r = ShowChunk(@, 0, FALSE)]

\* the back button and 'popstate': this.player.pause(); this.player.destroy()
BackToUpload(a) ==
    LET a1 == AppDispatch([a EXCEPT !.w = Pause(@)])
        a2 == AppDispatch([a1 EXCEPT !.w = Destroy(@)])
    IN [a2 EXCEPT !.u.section = "upload", !.u.state = "idle"]

\* ------------------------------------------------------------------------
\* UploadHandler and the page's upload wiring
\*
\* a.u holds the page's state (this.state), the section shown and one
\* record per upload: phase is "posting" while fetch('/api/upload') is
\* pending, "failed" after a failed POST, "open" while the EventSource of
\* _listenForProgress is connected and "closed" after evtSource.close();
\* finished is the flag of the closure.  History: completes and errors
\* count the calls of the handler's onComplete and onError for the job,
\* late tells that onProgress was called after one of them, and cancelled
\* that the user pressed cancel while the job was under way.
\* An EventSource dispatches nothing once it is closed, and no named event
\* with empty data; the data of the events is well-formed JSON.
\* ------------------------------------------------------------------------
NewJob ==
    [phase |-> "posting", finished |-> FALSE, completes |-> 0,
     errors |-> 0, late |-> FALSE, cancelled |-> FALSE]

NewUpload == [state |-> "idle", section |-> "upload", jobs |-> <<>>]

\* _wireUploadEvents: the callback given to upload.onProgress
PageOnProgress(a) ==
    IF a.u.state # "processing"
    THEN [a EXCEPT !.u.state = "processing", !.u.section = "processing"]
    ELSE a

\* the callback given to upload.onComplete; the data carries an audio URL
\* and the timestamps PagedChunks
PageOnComplete(a) ==
    LoadProject([a EXCEPT !.u.state = "playing", !.u.section = "player"],
                1, PageDuration)

\* the callback given to upload.onError
PageOnError(a) == [a EXCEPT !.u.section = "upload", !.u.state = "idle"]

\* the listener of the cancel button
CancelProcessing(a) ==
    [a EXCEPT !.u.section = "upload", !.u.state = "idle",
              !.u.jobs = [j \in 1..Len(@) |->
                             IF @[j].phase \in {"posting", "open"}
                             THEN [@[j] EXCEPT !.cancelled = TRUE]
                             ELSE @[j]]]

\* "if (this._onProgress) this._onProgress(data)" for job j
CallOnProgress(a, j) ==
    PageOnProgress([a EXCEPT !.u.jobs[j].late =
                        @ \/ a.u.jobs[j].completes + a.u.jobs[j].errors > 0])

\* "if (this._onComplete) this._onComplete(data)"
CallOnComplete(a, j) ==
    PageOnComplete([a EXCEPT !.u.jobs[j].completes = @ + 1])

\* "if (this._onError) this._onError(err)"
CallOnError(a, j) == PageOnError([a EXCEPT !.u.jobs[j].errors = @ + 1])

\* _handleFile(file) up to the await of fetch
HandleFile(a) == [a EXCEPT !.u.jobs = Append(@, NewJob)]

\* _handleFile after a response that is ok: the synthetic progress and
\* _listenForProgress(data.id)
PostSucceeds(a, j) ==
    [CallOnProgress(a, j) EXCEPT !.u.jobs[j].phase = "open"]

\* _handleFile after a failed fetch or a response that is not ok
PostFails(a, j) == CallOnError([a EXCEPT !.u.jobs[j].phase = "failed"], j)

\* the listener of 'progress'
OnProgressEvent(a, j) == CallOnProgress(a, j)

\* the listener of 'complete'
OnCompleteEvent(a, j) ==
    CallOnComplete([a EXCEPT !.u.jobs[j].finished = TRUE,
                             !.u.jobs[j].phase = "closed"], j)

\* variant: the listener of 'error' does not set the flag
ErrorListenerForgets(a, j, message) ==
    IF message
    THEN CallOnError([a EXCEPT !.u.jobs[j].phase = "closed"], j)
    ELSE a

\* the listener added for 'error'; message: the event is a MessageEvent
\* with data, sent by the server under the name error
ErrorListener(a, j, message) ==
    IF message
    THEN CallOnError([a EXCEPT !.u.jobs[j].finished = TRUE,
                               !.u.jobs[j].phase = "closed"], j)
    ELSE a

\* evtSource.onerror
OnErrorHandler(a, j) ==
    IF ~a.u.jobs[j].finished
    THEN CallOnError([a EXCEPT !.u.jobs[j].phase = "closed"], j)
    ELSE a

\* an event of type error, sent by the server or raised by the connection,
\* goes to the added listener and then to the onerror handler
DispatchError(a, j, message) ==
    OnErrorHandler(ErrorListener(a, j, message), j)


\* ------------------------------------------------------------------------
\* Who may call, and with what
\* ------------------------------------------------------------------------
Durations == {MaxDur}
SeekInputs == {0 - 1, SeekMid, MaxDur + 1}

Idle == stack = <<>>

\* a call comes from the page (no handler running) or from a listener of the
\* chunkchange, wordchange or timeupdate that is being dispatched; a
\* listener makes at most one call
CanCall ==
    IF stack = <<>> THEN TRUE
    ELSE /\ Len(stack) < MaxDepth
         /\ stack[Len(stack)].pc \in UpdatePcs
         /\ ~stack[Len(stack)].called

Enter(w) ==
    IF w.stack = <<>> THEN [w EXCEPT !.raised = FALSE]
    ELSE [w EXCEPT !.stack[Len(w.stack)].called = TRUE]

\* suspended ticks, each of which schedules its next frame when it resumes
TickFrames(st) == Cardinality({k \in 1..Len(st) : st[k].caller = "tick"})

\* the bound on scheduled callbacks leaves room for one more loop
LoopRoom == Cardinality(rafQueue \ {rafId}) + TickFrames(stack) < MaxRaf

\* ------------------------------------------------------------------------
\* Actions
\* ------------------------------------------------------------------------
Init ==
    /\ audio = FALSE
    /\ pos = 0
    /\ mediaDur = 0
    /\ metaPending = FALSE
    /\ mediaPlaying = FALSE
    /\ chunks = <<>>
    /\ chunkRanges = <<>>
    /\ duration = 0
    /\ activeChunkIndex = -1
    /\ activeWordIndex = -1
    /\ rafId = 0
    /\ playing = FALSE
    /\ rafQueue = {}
    /\ stack = <<>>
    /\ raised = FALSE
    /\ srcBlob = FALSE
    /\ objectUrls = 0
    /\ promise = "none"
    /\ orphan = "none"
    /\ lastChunkIdx = -1
    /\ lastWordIdx = -1
    /\ paged = NewRenderer
    /\ tele = NewTeleprompter
    /\ search = NewSearch
    /\ upload = NewUpload

\* loadAudio(src) with a URL string
DoLoadAudio ==
    /\ Idle
    /\ \E d \in Durations : Becomes(LoadAudioStart(Enter(World), d, FALSE))

LoadedMetadata ==
    /\ Idle
    /\ audio
    /\ metaPending
    /\ promise = "pending"
    /\ Becomes(OnLoadedMetadata(Enter(World)))

DoSetTimestamps ==
    /\ Idle
    /\ \E cs \in TimestampInputs : Becomes(SetTimestamps(Enter(World), cs))

DoPlay ==
    /\ CanCall
    /\ LoopRoom
    /\ Becomes(Play(Enter(World)))

DoPause ==
    /\ CanCall
    /\ Becomes(Pause(Enter(World)))

DoToggle ==
    /\ CanCall
    /\ playing \/ LoopRoom
    /\ Becomes(Toggle(Enter(World)))

DoSeek ==
    /\ CanCall
    /\ \E time \in SeekInputs : Becomes(Seek(Enter(World), time))

DoDestroy ==
    /\ CanCall
    /\ Becomes(Destroy(Enter(World)))

\* the media element plays on
MediaAdvance ==
    /\ Idle
    /\ audio
    /\ mediaPlaying
    /\ ~metaPending
    /\ pos < mediaDur
    /\ Becomes([Enter(World) EXCEPT !.pos = pos + 1])

\* the media element reaches its end and fires 'ended'
MediaEnded ==
    /\ Idle
    /\ audio
    /\ mediaPlaying
    /\ ~metaPending
    /\ pos = mediaDur
    /\ Becomes(OnEnded(Enter(World)))

\* the host runs a scheduled animation-frame callback
AnimationFrame ==
    /\ Idle
    /\ \E id \in rafQueue :
          Becomes(Tick([Enter(World) EXCEPT !.rafQueue = @ \ {id}]))

\* the listeners of the innermost pending _emit return
ListenerReturn ==
    /\ stack # <<>>
    /\ Becomes(Resume(World))

Next ==
    \/ DoLoadAudio
    \/ LoadedMetadata
    \/ DoSetTimestamps
    \/ DoPlay
    \/ DoPause
    \/ DoToggle
    \/ DoSeek
    \/ DoDestroy
    \/ MediaAdvance
    \/ MediaEnded
    \/ AnimationFrame
    \/ ListenerReturn

Spec == Init /\ [][Next]_vars

\* ------------------------------------------------------------------------
\* The position-to-state function on its own: the engine is playing some
\* well-formed timing data, the time source stands at an arbitrary time
\* (a test double may report a time before 0) and only moves forward, and no
\* listener calls back.
\* ------------------------------------------------------------------------
FnChunkLists == GenChunkLists \cup TimestampInputs

\* the last end time of the data
RECURSIVE LastEnd(_, _)
LastEnd(cs, i) ==
    IF i = 0 THEN 0
    ELSE IF Len(cs[i]) > 0 THEN Max(ChunkEnd(cs[i]), LastEnd(cs, i - 1))
         ELSE LastEnd(cs, i - 1)

\* the audio outlasts the tail of the last chunk
FnHorizon(cs) == LastEnd(cs, Len(cs)) + LastTail + 1
FnEarliest == 0 - PreRoll - 1

InitFn ==
    /\ chunks \in FnChunkLists
    /\ chunkRanges = ChunkRangesOf(chunks)
    /\ audio = TRUE
    /\ mediaDur = FnHorizon(chunks)
    /\ duration = mediaDur
    /\ pos \in FnEarliest..mediaDur
    /\ metaPending = FALSE
    /\ mediaPlaying = TRUE
    /\ activeChunkIndex = -1
    /\ activeWordIndex = -1
    /\ rafId = 1
    /\ playing = TRUE
    /\ rafQueue = {1}
    /\ stack = <<>>
    /\ raised = FALSE
    /\ srcBlob = FALSE
    /\ objectUrls = 0
    /\ promise = "resolved"
    /\ orphan = "none"
    /\ lastChunkIdx = -1
    /\ lastWordIdx = -1
    /\ paged = NewRenderer
    /\ tele = NewTeleprompter
    /\ search = NewSearch
    /\ upload = NewUpload

NextFn ==
    \/ AnimationFrame
    \/ ListenerReturn
    \/ MediaAdvance

SpecFn == InitFn /\ [][NextFn]_vars

\* ------------------------------------------------------------------------
\* Jumping to chunks: the engine holds some well-formed timing data and an
\* audio that outlasts it, and the page calls seekToChunk with any index
\* while the loop ticks.
\* ------------------------------------------------------------------------
ChunkInputs == (0 - 1)..MaxChunks

DoSeekToChunk ==
    /\ Idle
    /\ \E index \in ChunkInputs :
          Becomes(SeekToChunk(Enter(World), index))

NextSeekChunk ==
    \/ DoSeekToChunk
    \/ AnimationFrame
    \/ ListenerReturn

SpecSeekChunk == InitFn /\ [][NextSeekChunk]_vars

\* ------------------------------------------------------------------------
\* The life of the media elements: the page loads URL strings and Blobs,
\* the media signals metadata or an error for the element the engine holds
\* and for an element it has dropped, and the page plays and destroys.
\* ------------------------------------------------------------------------

\* loadAudio(src) with a Blob
DoLoadBlob ==
    /\ Idle
    /\ objectUrls < MaxUrls
    /\ \E d \in Durations : Becomes(LoadAudioStart(Enter(World), d, TRUE))

\* the media element of this.audio signals an error before it has metadata
MediaError ==
    /\ Idle
    /\ audio
    /\ metaPending
    /\ promise = "pending"
    /\ Becomes(OnError(Enter(World)))

\* a dropped media element gets its metadata
OrphanMetadata ==
    /\ Idle
    /\ orphan = "pending"
    /\ Becomes(OnOrphanMetadata(Enter(World)))

\* a dropped media element signals an error before it has metadata
OrphanError ==
    /\ Idle
    /\ orphan = "pending"
    /\ Becomes(OnOrphanError(Enter(World)))

NextLoad ==
    \/ DoLoadAudio
    \/ DoLoadBlob
    \/ LoadedMetadata
    \/ MediaError
    \/ OrphanMetadata
    \/ OrphanError
    \/ DoPlay
    \/ DoDestroy
    \/ AnimationFrame
    \/ ListenerReturn

SpecLoad == Init /\ [][NextLoad]_vars

\* ------------------------------------------------------------------------
\* The paged renderer on its own: the page shows chunks, the container's
\* animations end and the timeouts fire, in any order.
\* ------------------------------------------------------------------------
ShowInputs == (0 - 1)..NumChunks

\* the number of transition callbacks outstanding stays bounded
TransitionRoom(chunkIndex, animate) ==
    (/\ animate
     /\ chunkIndex \in 0..(NumChunks - 1)
     /\ chunkIndex # paged.currentChunkIndex
     /\ paged.currentChunkIndex >= 0
     /\ ~paged.transitioning)
        => paged.started < MaxTransitions

DoShowChunk ==
    \E chunkIndex \in ShowInputs, animate \in BOOLEAN :
        /\ TransitionRoom(chunkIndex, animate)
        /\ paged' = ShowChunk(paged, chunkIndex, animate)
        /\ UNCHANGED <<engineVars, tele, search, upload>>

\* an animation of the container ends
AnimationEnd ==
    /\ paged.classes # {}
    /\ paged' = DispatchAnimationEnd(paged)
    /\ UNCHANGED <<engineVars, tele, search, upload>>

TimerFires ==
    /\ paged.timers # <<>>
    /\ paged' = FireTimer(paged)
    /\ UNCHANGED <<engineVars, tele, search, upload>>

NextPaged ==
    \/ DoShowChunk
    \/ AnimationEnd
    \/ TimerFires

SpecPaged == Init /\ [][NextPaged]_vars

\* a timeout that has been set fires
SpecPagedFair == SpecPaged /\ WF_vars(TimerFires)

\* ------------------------------------------------------------------------
\* The paged renderer driven by the page: the 'timeupdate' listener hands
\* updateTime the time and the chunk the engine computed for it, while
\* chunks are shown, animations end and timeouts fire.
\* ------------------------------------------------------------------------
PageTimes == 0..(ChunkGap * NumChunks)

\* what the engine computes for time t on the page's timing data
PageStates ==
    [t \in PageTimes |-> FindChunk(t, ChunkRangesOf(PagedChunks))]

PageState(t) == PageStates[t]

DoUpdateTime ==
    \E time \in PageTimes :
        /\ TransitionRoom(PageState(time).idx, TRUE)
        /\ paged' = PagedUpdateTime(paged, time, PageState(time).idx,
                                    PageState(time).fade)
        /\ UNCHANGED <<engineVars, tele, search, upload>>

NextPagedTime ==
    \/ DoShowChunk
    \/ DoUpdateTime
    \/ AnimationEnd
    \/ TimerFires

SpecPagedTime == Init /\ [][NextPagedTime]_vars

\* ------------------------------------------------------------------------
\* The continuous renderer on its own: the page builds and destroys it,
\* hands updateTime what the engine computed for some time, the user
\* scrolls, time passes and the timeouts that are due fire.
\* ------------------------------------------------------------------------
MaxScrolls == 3

ChapterInputs == {{}, {0}}

\* the pairs <<chunkIndex, wordIndex>> the engine computes for some time
TeleInputs ==
    {<<PageState(t).idx, FindWord(t, PagedChunks, PageState(t).idx)>> :
        t \in PageTimes}

\* the flat index updateTime computes for the pair on a built renderer
FlatOf(in) ==
    IF in[1] < 0 \/ in[2] < 0 \/ in[1] >= Len(tele.chunkWordOffsets) THEN -1
    ELSE tele.chunkWordOffsets[in[1] + 1] + in[2]

\* updateTime with the pair the engine computed
TeleAt(in) == TeleUpdateTime(tele, in[1], in[2])

DoBuild ==
    \E chapters \in ChapterInputs :
        /\ tele' = Build(tele, chapters)
        /\ UNCHANGED <<engineVars, paged, search, upload>>

DoTeleUpdateTime ==
    \E in \in TeleInputs :
        LET t == TeleAt(in)
        IN /\ t.scrolls <= MaxScrolls
           /\ tele' = t
        /\ UNCHANGED <<engineVars, paged, search, upload>>

DoTeleDestroy ==
    /\ tele' = TeleDestroy(tele)
    /\ UNCHANGED <<engineVars, paged, search, upload>>

Gesture ==
    /\ tele.scrollEl
    /\ tele' = SuppressAutoScroll(tele)
    /\ UNCHANGED <<engineVars, paged, search, upload>>

ThrottleTimerFires ==
    /\ tele.throttleLeft = 0
    /\ tele' = ThrottleTimeout(tele)
    /\ UNCHANGED <<engineVars, paged, search, upload>>

UserScrollTimerFires ==
    /\ tele.userLeft = 0
    /\ tele' = UserScrollTimeout(tele)
    /\ UNCHANGED <<engineVars, paged, search, upload>>

TimePasses ==
    /\ tele' = Elapse(tele)
    /\ UNCHANGED <<engineVars, paged, search, upload>>

NextTele ==
    \/ DoBuild
    \/ DoTeleUpdateTime
    \/ DoTeleDestroy
    \/ Gesture
    \/ ThrottleTimerFires
    \/ UserScrollTimerFires
    \/ TimePasses

SpecTele == Init /\ [][NextTele]_vars

\* ------------------------------------------------------------------------
\* The page with a project: loadProject gives the engine and the renderer
\* the chunks PagedChunks and an audio URL; the user searches, steps
\* through the matches and skips 5 s back or forth, while the container's
\* animations end and the renderer's timeouts fire.
\* ------------------------------------------------------------------------
SkipDelta == 50

QueryInputs ==
    {<<>>, <<" ">>, <<"t", "h", "e">>, <<" ", "T", "H", "E", " ">>,
     <<"c", "a", "t">>, <<"x">>}

App == [w |-> World, r |-> paged, s |-> search, u |-> upload]

\* the page as a handler of its own starts to run
AppEnter == [App EXCEPT !.w = Enter(World)]

AppBecomes(a) ==
    /\ EngineBecomes(a.w)
    /\ paged' = a.r
    /\ search' = a.s
    /\ upload' = a.u
    /\ UNCHANGED tele

MaxAppTransitions == 2

\* the number of transitions begun stays bounded
AppRoom(a) == a.r.started <= MaxAppTransitions

\* loadProject(audioUrl, timestamps, formatting) up to its await
DoLoadProject ==
    /\ Idle
    /\ ~audio
    /\ AppBecomes(LoadProject(AppEnter, 1, PageDuration))

\* the audio gets its metadata and loadProject goes on after its await
ProjectLoaded ==
    /\ Idle
    /\ audio
    /\ metaPending
    /\ promise = "pending"
    /\ AppBecomes(LoadProjectResumes(AppEnter))

\* 'input' on the search field
DoRunSearch ==
    /\ Idle
    /\ \E query \in QueryInputs :
          LET a == RunSearch(AppEnter, query)
          IN AppRoom(a) /\ AppBecomes(a)

\* the previous/next buttons, Enter and Shift+Enter
DoSearchNav ==
    /\ Idle
    /\ \E direction \in {0 - 1, 1} :
          LET a == SearchNav(AppEnter, direction)
          IN AppRoom(a) /\ AppBecomes(a)

\* the skip buttons: this.player.seek(this.player.currentTime -+ 5)
DoSkip ==
    /\ Idle
    /\ \E delta \in {0 - SkipDelta, SkipDelta} :
          LET currentTime == IF audio THEN pos ELSE 0
              a == AppSeek(AppEnter, currentTime + delta)
          IN AppRoom(a) /\ AppBecomes(a)

NextSearch ==
    \/ DoLoadProject
    \/ ProjectLoaded
    \/ DoRunSearch
    \/ DoSearchNav
    \/ DoSkip
    \/ AnimationEnd
    \/ TimerFires

SpecSearch == Init /\ [][NextSearch]_vars

\* ------------------------------------------------------------------------
\* The page across projects: the user goes back to the upload view and
\* opens a project again, the same one or another, while searching and
\* stepping through the matches; the fades end by their timeouts.
\* ------------------------------------------------------------------------
ListInputs == {1, 2}

\* a project is opened while no load is under way
DoOpenProject ==
    /\ Idle
    /\ promise # "pending"
    /\ \E id \in ListInputs :
          AppBecomes(LoadProject(AppEnter, id, PageDuration))

DoBackToUpload ==
    /\ Idle
    /\ audio
    /\ AppBecomes(BackToUpload(AppEnter))

NextReload ==
    \/ DoOpenProject
    \/ ProjectLoaded
    \/ DoBackToUpload
    \/ DoRunSearch
    \/ DoSearchNav
    \/ TimerFires

SpecReload == Init /\ [][NextReload]_vars

\* ------------------------------------------------------------------------
\* Uploads: the user drops files while the upload view is shown, cancels
\* while the processing view is shown and goes back from the player; the
\* POST of an upload succeeds or fails, and the event stream of a job
\* delivers progress, complete and error events and connection errors in
\* any order as long as it is open.
\* ------------------------------------------------------------------------
MaxJobs == 2

Jobs(phase) == {j \in 1..Len(upload.jobs) : upload.jobs[j].phase = phase}

DoHandleFile ==
    /\ Idle
    /\ upload.section = "upload"
    /\ Len(upload.jobs) < MaxJobs
    /\ AppBecomes(HandleFile(AppEnter))

PostReturns ==
    /\ Idle
    /\ \E j \in Jobs("posting") :
          \/ AppBecomes(PostSucceeds(AppEnter, j))
          \/ AppBecomes(PostFails(AppEnter, j))

StreamProgress ==
    /\ Idle
    /\ \E j \in Jobs("open") : AppBecomes(OnProgressEvent(AppEnter, j))

StreamComplete ==
    /\ Idle
    /\ \E j \in Jobs("open") : AppBecomes(OnCompleteEvent(AppEnter, j))

StreamError ==
    /\ Idle
    /\ \E j \in Jobs("open"), message \in BOOLEAN :
          AppBecomes(DispatchError(AppEnter, j, message))

DoCancel ==
    /\ Idle
    /\ upload.section = "processing"
    /\ AppBecomes(CancelProcessing(AppEnter))

NextUpload ==
    \/ DoHandleFile
    \/ PostReturns
    \/ StreamProgress
    \/ StreamComplete
    \/ StreamError
    \/ DoCancel
    \/ DoBackToUpload
    \/ ProjectLoaded

SpecUpload == Init /\ [][NextUpload]_vars

\* ------------------------------------------------------------------------
\* Renderers and their containers: a renderer is constructed with what
\* getElementById returned, an element or null.  The paged renderer comes
\* either way, the continuous renderer without a container; the page
\* shows chunks, hands over time updates and settings and builds.
\* ------------------------------------------------------------------------
FontSizes == {0, 14, 18}

MountTimes == {0, ChunkGap + 2}

InitMounted ==
    /\ audio = FALSE
    /\ pos = 0
    /\ mediaDur = 0
    /\ metaPending = FALSE
    /\ mediaPlaying = FALSE
    /\ chunks = <<>>
    /\ chunkRanges = <<>>
    /\ duration = 0
    /\ activeChunkIndex = -1
    /\ activeWordIndex = -1
    /\ rafId = 0
    /\ playing = FALSE
    /\ rafQueue = {}
    /\ stack = <<>>
    /\ raised = FALSE
    /\ srcBlob = FALSE
    /\ objectUrls = 0
    /\ promise = "none"
    /\ orphan = "none"
    /\ lastChunkIdx = -1
    /\ lastWordIdx = -1
    /\ paged \in {Renderer(TRUE), Renderer(FALSE)}
    /\ tele = Teleprompter(FALSE)
    /\ search = NewSearch
    /\ upload = NewUpload

DoMountUpdateTime ==
    \E time \in MountTimes :
        /\ TransitionRoom(PageState(time).idx, TRUE)
        /\ paged' = PagedUpdateTime(paged, time, PageState(time).idx,
                                    PageState(time).fade)
        /\ UNCHANGED <<engineVars, tele, search, upload>>

DoApplySettings ==
    \E fontSize \in FontSizes :
        /\ paged' = ApplySettings(paged, fontSize)
        /\ UNCHANGED <<engineVars, tele, search, upload>>

DoTeleApplySettings ==
    \E fontSize \in FontSizes :
        /\ tele' = TeleApplySettings(tele, fontSize)
        /\ UNCHANGED <<engineVars, paged, search, upload>>

NextMount ==
    \/ DoShowChunk
    \/ DoMountUpdateTime
    \/ DoApplySettings
    \/ AnimationEnd
    \/ TimerFires
    \/ DoBuild
    \/ DoTeleApplySettings

SpecMount == InitMounted /\ [][NextMount]_vars

\* ------------------------------------------------------------------------
\* Types
\* ------------------------------------------------------------------------
TypeOK ==
    /\ audio \in BOOLEAN
    /\ pos \in FnEarliest..(MaxDur + MaxTime + LastTail + 1)
    /\ activeChunkIndex \in (0 - 1)..MaxChunks
    /\ activeWordIndex \in (0 - 1)..MaxWords
    /\ rafId \in {0} \cup RafIds
    /\ rafQueue \subseteq RafIds
    /\ Cardinality(rafQueue) <= MaxRaf
    /\ Len(stack) <= MaxDepth
    /\ srcBlob \in BOOLEAN
    /\ objectUrls \in 0..MaxUrls
    /\ promise \in {"none", "pending", "resolved", "rejected"}
    /\ orphan \in {"none", "pending", "resolved", "rejected", "thrown"}
    /\ paged.currentChunkIndex \in (0 - 1)..(NumChunks - 1)
    /\ paged.wordSpans \in (0 - 1)..(Len(Library) - 1)
    /\ paged.chunks \in {1, 2}
    /\ upload.state \in {"idle", "processing", "playing"}
    /\ upload.section \in {"upload", "processing", "player"}
    /\ Len(upload.jobs) <= MaxJobs
    /\ \A j \in 1..Len(upload.jobs) :
          upload.jobs[j].phase \in {"posting", "failed", "open", "closed"}
    /\ paged.transitioning \in BOOLEAN
    /\ paged.started \in 0..MaxTransitions
    /\ paged.phase \in {"idle", "out", "in"}
    /\ paged.container \in BOOLEAN
    /\ paged.raised \in BOOLEAN
    /\ \A i \in 1..Len(paged.classList) :
          paged.classList[i] \subseteq
              StateClasses \cup {"search-match", "search-current"}


\* ------------------------------------------------------------------------
\* What the specification says, stated on the timing data itself
\* ------------------------------------------------------------------------
Dispatching(name) == stack # <<>> /\ stack[Len(stack)].pc = name
Cur == stack[Len(stack)]

Lowest(S) == CHOOSE i \in S : \A j \in S : i <= j

\* the range of chunk i (0-based): first word's start to last word's end,
\* {0,0} for an empty chunk
RangeOf(i) ==
    IF Len(chunks[i + 1]) = 0 THEN W(0, 0)
    ELSE W(chunks[i + 1][1].start, chunks[i + 1][Len(chunks[i + 1])].end)

WindowTail(i) == IF i = Len(chunks) - 1 THEN LastTail ELSE PostRoll

InWindow(t, i) ==
    /\ RangeOf(i).start - PreRoll <= t
    /\ t <= RangeOf(i).end + WindowTail(i)

Windows(t) == {i \in 0..(Len(chunks) - 1) : InWindow(t, i)}

\* the words of chunk i that are being spoken at time t
Speaking(t, i) ==
    {w \in 0..(Len(chunks[i + 1]) - 1) :
        chunks[i + 1][w + 1].start <= t /\ t < chunks[i + 1][w + 1].end}

PastLastWord(t, i) ==
    Len(chunks[i + 1]) > 0 /\ t >= chunks[i + 1][Len(chunks[i + 1])].end

InCore(t, i) ==
    Len(chunks[i + 1]) > 0 /\ RangeOf(i).start <= t /\ t <= RangeOf(i).end

StrictlyInCore(t, i) ==
    Len(chunks[i + 1]) > 0 /\ RangeOf(i).start < t /\ t < RangeOf(i).end

NoEmptyChunk == \A i \in 1..Len(chunks) : Len(chunks[i]) > 0

ChunkAt(t) == IF Windows(t) = {} THEN -1 ELSE Lowest(Windows(t))

WordAt(t, i) ==
    IF i < 0 THEN -1
    ELSE IF Speaking(t, i) # {} THEN Lowest(Speaking(t, i))
         ELSE IF PastLastWord(t, i) THEN Len(chunks[i + 1]) - 1
              ELSE -1

\* ------------------------------------------------------------------------
\* C1  At most one tick task (scheduled animation-frame callback) is
\*     outstanding after any sequence of play, pause, toggle, seek, 'ended'
\*     and destroy, calls made by a listener during a tick included.
\* ------------------------------------------------------------------------
C1_AtMostOneTick == Cardinality(rafQueue) <= 1

\* ------------------------------------------------------------------------
\* C2  Once pause(), the 'ended' handler or destroy() has returned, no tick
\*     task is outstanding until the next play(): whenever no handler is
\*     running and the engine is not playing or has no audio, nothing is
\*     scheduled.
\* ------------------------------------------------------------------------
C2_StoppedStaysStopped == (Idle /\ (~playing \/ ~audio)) => rafQueue = {}

\* ------------------------------------------------------------------------
\* C3  Whenever a listener of chunkchange, wordchange or timeupdate runs,
\*     the stored activeChunkIndex and activeWordIndex are those of one and
\*     the same recomputation (the latest), and when the outermost
\*     recomputation dispatches its final event they are the indices of the
\*     engine's current position.
\* ------------------------------------------------------------------------
C3_SnapshotAtomic ==
    /\ (stack # <<>> /\ Cur.pc \in UpdatePcs)
          => (activeChunkIndex = lastChunkIdx /\ activeWordIndex = lastWordIdx)
    /\ (Len(stack) = 1 /\ Cur.pc = "timeupdate" /\ audio)
          => /\ activeChunkIndex = ChunkAt(pos)
             /\ activeWordIndex = WordAt(pos, ChunkAt(pos))

\* ------------------------------------------------------------------------
\* C4  The active chunk computed by a tick is the lowest-index chunk whose
\*     extended window [start - preRoll, end + tail] contains t, and when no
\*     window contains t both active indices are -1.
\* ------------------------------------------------------------------------
C4_FirstWindowWins ==
    Dispatching("timeupdate") =>
        /\ Cur.nc = ChunkAt(Cur.t)
        /\ activeChunkIndex = Cur.nc
        /\ (Windows(Cur.t) = {}) => (activeChunkIndex = -1 /\ activeWordIndex = -1)

C4_Witness ==
    /\ Dispatching("timeupdate")
    /\ Cardinality(Windows(Cur.t)) >= 2
    /\ Cur.nc = Lowest(Windows(Cur.t))
    /\ activeChunkIndex = Cur.nc

\* ------------------------------------------------------------------------
\* C5  As claimed: for every chunk i and every t in its core range
\*     [start_i, end_i], the word index reported by the tick is the word w of
\*     chunk i with start_w <= t < end_w, or the last word once
\*     t >= lastWord.end.  (Read on data without an empty chunk, so that
\*     a refutation does not rest on C9.)
\* ------------------------------------------------------------------------
C5_WordInCoreRange ==
    (Dispatching("timeupdate") /\ NoEmptyChunk) =>
        \A i \in 0..(Len(chunks) - 1) :
            InCore(Cur.t, i) =>
                \/ Cur.nw \in Speaking(Cur.t, i)
                \/ (PastLastWord(Cur.t, i) /\ Cur.nw = Len(chunks[i + 1]) - 1)

\* C5 as amended: at every time t at which chunk i is the active chunk, the
\*     word index reported by the tick is the one word w of chunk i with
\*     start_w <= t < end_w if there is one, else the last word once
\*     t >= lastWord.end, else -1 (t before the first word or in a pause
\*     between two words).
C5_WordOfActiveChunk ==
    (Dispatching("timeupdate") /\ Cur.nc >= 0) =>
        /\ Cardinality(Speaking(Cur.t, Cur.nc)) <= 1
        /\ Cur.nw = WordAt(Cur.t, Cur.nc)
        /\ activeWordIndex = Cur.nw

C5_Witness ==
    /\ Dispatching("timeupdate")
    /\ Cur.nc >= 0
    /\ InCore(Cur.t, Cur.nc)
    /\ Cur.nw > 0
    /\ Cur.nw \in Speaking(Cur.t, Cur.nc)
    /\ activeWordIndex = Cur.nw

\* ------------------------------------------------------------------------
\* C6  As claimed: while a chunk stays the active chunk and time advances,
\*     a word index that was >= 0 at the previous recomputation is not -1 at
\*     this one.
\* ------------------------------------------------------------------------
C6_NeverBackToNone ==
    (Dispatching("timeupdate") /\ Cur.nc >= 0 /\ Cur.prevC = Cur.nc
        /\ Cur.prevW >= 0)
        => Cur.nw >= 0

\* C6 as amended: while a chunk stays the active chunk and time advances, a
\*     word index that was >= 0 reverts to -1 only while t lies in a pause
\*     between two words of the chunk (no word has start_w <= t < end_w and
\*     t < lastWord.end); at or past the last word's end it is the last word.
C6_NoneOnlyBetweenWords ==
    (Dispatching("timeupdate") /\ Cur.nc >= 0 /\ Cur.prevC = Cur.nc)
        => /\ (Cur.prevW >= 0 /\ Cur.nw = -1)
                => (Speaking(Cur.t, Cur.nc) = {} /\ ~PastLastWord(Cur.t, Cur.nc))
           /\ PastLastWord(Cur.t, Cur.nc)
                => Cur.nw = Len(chunks[Cur.nc + 1]) - 1

C6_Witness ==
    /\ Dispatching("timeupdate")
    /\ Cur.nc >= 0
    /\ Cur.prevC = Cur.nc
    /\ Cur.prevW >= 0
    /\ Cur.prevW < Len(chunks[Cur.nc + 1]) - 1
    /\ PastLastWord(Cur.t, Cur.nc)
    /\ Cur.nw = Len(chunks[Cur.nc + 1]) - 1

\* ------------------------------------------------------------------------
\* C7  As claimed: for every chunk i and every t strictly inside
\*     [start_i, end_i], the fadeAlpha of the timeupdate event is exactly 1.
\*     (Read on data without an empty chunk, so that a refutation does not
\*     rest on C9.)
\* ------------------------------------------------------------------------
C7_FullAlphaInAnyCore ==
    (Dispatching("timeupdate") /\ NoEmptyChunk) =>
        \A i \in 0..(Len(chunks) - 1) :
            StrictlyInCore(Cur.t, i) => FracEq(Cur.fa, One)

\* C7 as amended: whenever chunk i is the active chunk and t lies inside
\*     [start_i, end_i], the fadeAlpha of the timeupdate event is exactly 1.
C7_FullAlphaInActiveCore ==
    (Dispatching("timeupdate") /\ Cur.nc >= 0
        /\ RangeOf(Cur.nc).start <= Cur.t /\ Cur.t <= RangeOf(Cur.nc).end)
        => FracEq(Cur.fa, One)

C7_Witness ==
    /\ Dispatching("timeupdate")
    /\ Cur.nc = 1
    /\ StrictlyInCore(Cur.t, 1)
    /\ FracEq(Cur.fa, One)

\* ------------------------------------------------------------------------
\* C8  Every fadeAlpha emitted lies in [0,1]; in the pre-roll of the active
\*     chunk it is 1 - (start - t)/preRoll and in its post-roll or tail it is
\*     1 - (t - end)/tail; for [Hi 0-0.5, there 0.5-1.0] at t = -0.1 the
\*     chunk is active, the word index is -1 and fadeAlpha is 2/3.
\* ------------------------------------------------------------------------
C8_FadeAlphaLinear ==
    (stack # <<>> /\ Cur.pc \in {"chunkchange", "timeupdate"}) =>
        /\ Cur.fa[2] > 0
        /\ FracLeq(Frac(0, 1), Cur.fa)
        /\ FracLeq(Cur.fa, One)
        /\ (Cur.nc >= 0 /\ Cur.t < RangeOf(Cur.nc).start)
              => FracEq(Cur.fa,
                        Frac(PreRoll - (RangeOf(Cur.nc).start - Cur.t), PreRoll))
        /\ (Cur.nc >= 0 /\ Cur.t > RangeOf(Cur.nc).end)
              => FracEq(Cur.fa,
                        Frac(WindowTail(Cur.nc) - (Cur.t - RangeOf(Cur.nc).end),
                             WindowTail(Cur.nc)))
        /\ (chunks = ScenarioA /\ Cur.t = -1)
              => (Cur.nc = 0 /\ Cur.nw = -1 /\ FracEq(Cur.fa, Frac(2, 3)))

C8_Witness ==
    /\ Dispatching("timeupdate")
    /\ chunks = ScenarioA
    /\ Cur.t = -1
    /\ Cur.nc = 0
    /\ Cur.nw = -1
    /\ FracEq(Cur.fa, Frac(2, 3))

\* ------------------------------------------------------------------------
\* C9  An empty chunk is never the active chunk: for every time t in
\*     [0, duration] the tick never reports the index of an empty chunk.
\* ------------------------------------------------------------------------
C9_EmptyChunkNeverActive ==
    (Dispatching("timeupdate") /\ 0 <= Cur.t /\ Cur.t <= duration)
        => (Cur.nc = -1 \/ Len(chunks[Cur.nc + 1]) > 0)

\* ------------------------------------------------------------------------
\* C10 chunkchange is emitted exactly once by a recomputation whose chunk
\*     index differs from the one computed by the recomputation before it,
\*     and never otherwise; wordchange likewise for the word index.
\* ------------------------------------------------------------------------
C10_ChangeEventsMatch ==
    \A k \in 1..Len(stack) :
        stack[k].pc = "timeupdate" =>
            /\ stack[k].cc = (IF stack[k].nc # stack[k].prevC THEN 1 ELSE 0)
            /\ stack[k].wc = (IF stack[k].nw # stack[k].prevW THEN 1 ELSE 0)

\* ------------------------------------------------------------------------
\* C11 Every tick that runs emits exactly one timeupdate, after any
\*     chunkchange/wordchange of the same tick: the animation-frame
\*     callback always starts a recomputation that dispatches, each of its
\*     events is followed only by a later one, and nothing follows its
\*     timeupdate.  The chunkIndex/wordIndex of that timeupdate equal the
\*     stored active indices, and its progress is time/duration (0 when the
\*     duration is unknown) and lies in [0,1].
\* ------------------------------------------------------------------------
C11_TickStep ==
    /\ AnimationFrame
          => /\ Len(stack') = 1
             /\ stack'[1].caller = "tick"
             /\ stack'[1].pc \in UpdatePcs
    /\ (stack # <<>> /\ Cur.caller = "tick" /\ ListenerReturn)
          => CASE Cur.pc = "chunkchange" ->
                    /\ Len(stack') = Len(stack)
                    /\ stack'[Len(stack)].pc \in {"wordchange", "timeupdate"}
               [] Cur.pc = "wordchange" ->
                    /\ Len(stack') = Len(stack)
                    /\ stack'[Len(stack)].pc = "timeupdate"
               [] OTHER -> Len(stack') = Len(stack) - 1
    /\ (stack # <<>> /\ Cur.caller = "tick" /\ Cur.pc = "timeupdate")
          => /\ Cur.nc = activeChunkIndex
             /\ Cur.nw = activeWordIndex
             /\ Cur.progress[2] > 0
             /\ FracEq(Cur.progress,
                       IF duration > 0 THEN <<Cur.t, duration>> ELSE <<0, 1>>)
             /\ FracLeq(<<0, 1>>, Cur.progress)
             /\ FracLeq(Cur.progress, <<1, 1>>)

C11_OneTimeupdatePerTick == [][C11_TickStep]_vars

\* ------------------------------------------------------------------------
\* C12 seek(t) never raises, for any t; with audio loaded the playback
\*     position after the assignment is min(max(t, 0), duration), and with
\*     no audio loaded it changes nothing.
\* ------------------------------------------------------------------------
C12_SeekStep ==
    \A time \in SeekInputs :
        (CanCall /\ Becomes(Seek(Enter(World), time)))
            => /\ ~raised'
               /\ IF audio
                  THEN pos' = (IF (IF time >= 0 THEN time ELSE 0) <= duration
                               THEN (IF time >= 0 THEN time ELSE 0)
                               ELSE duration)
                  ELSE UNCHANGED <<audio, pos, mediaDur, metaPending,
                                   mediaPlaying, chunks, chunkRanges, duration,
                                   activeChunkIndex, activeWordIndex, rafId,
                                   playing, rafQueue>>

C12_SeekClampsNeverRaises == [](~raised) /\ [][C12_SeekStep]_vars

\* ------------------------------------------------------------------------
\* C13 seek(t) recomputes immediately, also while paused: when the 'seek'
\*     event is dispatched (the last thing seek does before it returns) the
\*     event carries the playback position, the stored active indices are
\*     those of that position, and they are the ones the latest
\*     recomputation computed and announced.
\* ------------------------------------------------------------------------
C13_SeekRecomputesFirst ==
    Dispatching("seek") =>
        /\ Cur.time = pos
        /\ activeChunkIndex = ChunkAt(pos)
        /\ activeWordIndex = WordAt(pos, ChunkAt(pos))
        /\ activeChunkIndex = lastChunkIdx
        /\ activeWordIndex = lastWordIdx

\* ------------------------------------------------------------------------
\* C14 destroy() is idempotent and safe before loadAudio: in every engine
\*     state a call raises nothing, a second call right after it changes
\*     nothing more, and with no audio and no loop it changes nothing at all.
\* ------------------------------------------------------------------------
C14_DestroyIdempotent ==
    LET once == Destroy(World)
        twice == Destroy(once)
    IN /\ once.raised = raised
       /\ twice = once
       /\ ~once.audio
       /\ once.rafId = 0
       /\ (~audio /\ rafId = 0) => once = World

C14_Witness ==
    /\ Idle
    /\ ~audio
    /\ mediaDur > 0
    /\ playing
    /\ rafId = 0
    /\ rafQueue = {}
    /\ Destroy(World) = World

\* ------------------------------------------------------------------------
\* C15 When destroy() has returned, every object URL that loadAudio created
\*     for a Blob source has been revoked, those of earlier loadAudio calls
\*     included: while the engine holds no audio, no object URL is left.
\* ------------------------------------------------------------------------
C15_AllUrlsReleased == ~audio => objectUrls = 0

\* ------------------------------------------------------------------------
\* C16 loadAudio has exactly one outcome.  When the media element of a call
\*     signals an error before it has metadata, the call's promise is
\*     rejected, no 'loaded' is emitted and nothing is loaded again; when it
\*     signals metadata, the duration of a loaded element is recorded and
\*     'loaded' is dispatched once; the promise resolves only on return from
\*     that dispatch, and a settled promise does not change sides.
\* ------------------------------------------------------------------------
C16_LoadStep ==
    /\ MediaError
          => (promise' = "rejected" /\ UNCHANGED <<audio, duration, stack, metaPending>>)
    /\ OrphanError
          => (orphan' = "rejected" /\ UNCHANGED <<audio, duration, stack, metaPending>>)
    /\ (LoadedMetadata \/ OrphanMetadata)
          => /\ ~raised'
             /\ duration' \in Durations
             /\ Len(stack') = 1
             /\ stack'[1].pc = "loaded"
    /\ (promise' = "resolved" /\ promise # "resolved")
          => (promise = "pending" /\ Dispatching("loaded")
                /\ Cur.caller = "load" /\ duration \in Durations)
    /\ (orphan' = "resolved" /\ orphan # "resolved")
          => (orphan = "pending" /\ Dispatching("loaded")
                /\ Cur.caller = "orphan" /\ duration \in Durations)
    /\ promise = "rejected" => promise' # "resolved"
    /\ promise = "resolved" => promise' # "rejected"
    /\ orphan = "rejected" => orphan' # "resolved"
    /\ orphan = "resolved" => orphan' # "rejected"

C16_LoadOneOutcome == [][C16_LoadStep]_vars

\* ------------------------------------------------------------------------
\* C17 showChunk(index) changes nothing (no render, no transition, same
\*     state) when index is the chunk the renderer is showing, and for an
\*     out-of-range index it leaves no word spans and no current chunk.
\* ------------------------------------------------------------------------
C17_ShowChunkNoOpOrClear ==
    \A index \in ShowInputs, animate \in BOOLEAN :
        LET r == ShowChunk(paged, index, animate)
        IN /\ (index >= 0 /\ index = paged.currentChunkIndex) => r = paged
           /\ (index < 0 \/ index >= NumChunks)
                 => (r.wordSpans = -1 /\ r.currentChunkIndex = -1)

\* ------------------------------------------------------------------------
\* C18 A showChunk call made while a transition is in progress (the flag
\*     _transitioning set) is ignored: it changes neither currentChunkIndex
\*     nor what the callbacks of the transition in flight will display.
\* ------------------------------------------------------------------------
C18_MidTransitionIgnored ==
    paged.transitioning =>
        \A index \in ShowInputs, animate \in BOOLEAN :
            LET r == ShowChunk(paged, index, animate)
            IN /\ r.currentChunkIndex = paged.currentChunkIndex
               /\ r.wordSpans = paged.wordSpans
               /\ r.listeners = paged.listeners
               /\ r.timers = paged.timers

\* ------------------------------------------------------------------------
\* C19 Transitions never overlap, whatever the order of showChunk calls,
\*     animationend signals and timeouts: the flag stays set while the
\*     latest transition is in its fade-out or fade-in phase, and every
\*     callback still outstanding that swaps the content belongs to the
\*     latest transition, so that no earlier transition swaps content after
\*     a later one has started.
\* ------------------------------------------------------------------------
C19_TransitionsNeverOverlap ==
    /\ paged.phase # "idle" => paged.transitioning
    /\ \A k \in 1..Len(paged.listeners) :
          paged.listeners[k].fn = "onFadeOut"
             => paged.listeners[k].tr = paged.started
    /\ \A k \in 1..Len(paged.timers) :
          paged.timers[k].fn = "fallbackOut"
             => paged.timers[k].tr = paged.started

\* ------------------------------------------------------------------------
\* C20 Every transition that starts eventually completes: whenever the flag
\*     _transitioning is set it is eventually cleared, even if no
\*     animationend ever arrives, because the timeouts fire.
\* ------------------------------------------------------------------------
C20_FlagEventuallyCleared == paged.transitioning ~> ~paged.transitioning

C20_Witness ==
    /\ paged.started > 0
    /\ ~paged.transitioning
    /\ paged.phase = "idle"
    /\ paged.timers = <<>>
    /\ Len(paged.listeners) = 1
    /\ paged.listeners[1].fn = "onFadeOut"
    /\ paged.listeners[1].tr = paged.started

\* C21: after PagedRenderer.updateTime(time, ...) every visible word span
\* carries exactly one of the states spoken/active/upcoming, the one the
\* rule (time >= end: spoken; start <= time < end: active; otherwise
\* upcoming) gives for that span's own word timing.
TaggedByOwnTiming(r, time) ==
    \A i \in 1..Len(r.classList) :
        /\ r.wordSpans >= 0
        /\ i <= Len(PagedChunks[r.wordSpans + 1])
        /\ r.classList[i] \cap StateClasses =
              {Classify(time, PagedChunks[r.wordSpans + 1][i])}

C21_SpansTaggedByOwnTiming ==
    \A time \in PageTimes :
        TaggedByOwnTiming(
            PagedUpdateTime(paged, time, PageState(time).idx,
                            PageState(time).fade), time)

\* the same, for an update that finds the spans of its own chunk in the
\* container
C21_SameChunkTagged ==
    \A time \in PageTimes :
        LET r == PagedUpdateTime(paged, time, PageState(time).idx,
                                 PageState(time).fade)
        IN r.wordSpans = PageState(time).idx => TaggedByOwnTiming(r, time)

\* C22: after build and any sequence of updateTime calls with valid
\* (chunkIndex, wordIndex) - forward, backward, jumps of any size - exactly
\* the words with flat index below the active flat index are tagged spoken,
\* exactly the active one is tagged active, every word above it is tagged
\* upcoming, and no word carries two tags.
C22_TaggingInvariant ==
    (tele.built /\ tele.prevFlatIndex >= 0) =>
        \A i \in 0..(Len(tele.allSpans) - 1) :
            tele.allSpans[i + 1] \cap StateClasses =
                {IF i < tele.prevFlatIndex THEN "word-spoken"
                 ELSE IF i = tele.prevFlatIndex THEN "word-active"
                 ELSE "word-upcoming"}

\* a backward jump over more than one word has been made
C22_Witness ==
    /\ tele.built
    /\ tele.prevFlatIndex = 1
    /\ 3 \in tele.touched

\* C23: updateTime is incremental: with the flat index unchanged nothing
\* changes (no retag, no scroll), and with a previous flat index defined
\* only the spans in the inclusive range between the previous and the new
\* flat index are written - every span outside the range keeps its tag.
C23_Incremental ==
    \A in \in TeleInputs :
        LET prevFlat == tele.prevFlatIndex
            flat == FlatOf(in)
            lo == Min(prevFlat, flat)
            hi == Max(prevFlat, flat)
            t == TeleAt(in)
        IN /\ (tele.built /\ flat >= 0 /\ flat = prevFlat) => t = tele
           /\ (tele.built /\ flat >= 0 /\ prevFlat >= 0 /\ flat # prevFlat)
                => /\ t.touched \subseteq lo..hi
                   /\ \A i \in 0..(Len(tele.allSpans) - 1) :
                         (i < lo \/ i > hi)
                            => t.allSpans[i + 1] = tele.allSpans[i + 1]

\* a step back to the neighbouring word has been made, with other spans
\* in the view
C23_Witness ==
    /\ tele.built
    /\ tele.prevFlatIndex >= 1
    /\ tele.touched = {tele.prevFlatIndex, tele.prevFlatIndex + 1}
    /\ Len(tele.allSpans) > 3

\* C24: after an auto-scroll is issued no further auto-scroll is issued
\* until the 300 ms throttle window has elapsed, however many updateTime
\* calls with a changing flat index arrive in between.
C24_ScrollThrottled ==
    \A in \in TeleInputs :
        TeleAt(in).scrolls > tele.scrolls
            => tele.sinceScroll >= ThrottleDelay

\* a second scroll has been issued, and an update arrives inside a window
C24_Witness ==
    /\ tele.scrolls >= 2
    /\ tele.sinceScroll < ThrottleDelay
    /\ \E in \in TeleInputs :
          FlatOf(in) >= 0 /\ FlatOf(in) # tele.prevFlatIndex

\* C25 as stated: a gesture disables auto-scroll at once and restarts the
\* 3 s cooldown; auto-scroll is enabled again only when 3 s have elapsed
\* since the most recent gesture, and no auto-scroll is issued before that.
C25_CooldownOnly ==
    /\ tele.autoScrollEnabled => tele.sinceGesture >= CooldownDelay
    /\ \A in \in TeleInputs :
          TeleAt(in).scrolls > tele.scrolls
              => tele.sinceGesture >= CooldownDelay

\* C25, amended: a gesture disables auto-scroll at once and restarts the
\* 3 s cooldown; auto-scroll is enabled again only when 3 s have elapsed
\* since the most recent gesture or build() has rebuilt the view since,
\* and no auto-scroll is issued before that.
C25_CooldownOrRebuild ==
    /\ ~SuppressAutoScroll(tele).autoScrollEnabled
    /\ SuppressAutoScroll(tele).userLeft = CooldownDelay
    /\ tele.autoScrollEnabled
          => (tele.sinceGesture >= CooldownDelay \/ tele.rebuilt)
    /\ \A in \in TeleInputs :
          TeleAt(in).scrolls > tele.scrolls
              => (tele.sinceGesture >= CooldownDelay \/ tele.rebuilt)
    /\ (tele.userLeft # NoTimer /\ ~tele.rebuilt)
          => tele.userLeft + tele.sinceGesture >= CooldownDelay

\* the cooldown of a second gesture is about to end with auto-scroll
\* still disabled
C25_Witness ==
    /\ ~tele.autoScrollEnabled
    /\ ~tele.rebuilt
    /\ tele.sinceGesture = CooldownDelay - 1
    /\ tele.userLeft = 1

\* ------------------------------------------------------------------------
\* What the specification says about search, stated on the chunk data
\* ------------------------------------------------------------------------
CasePairs ==
    {<<"A", "a">>, <<"C", "c">>, <<"E", "e">>, <<"H", "h">>, <<"O", "o">>,
     <<"R", "r">>, <<"T", "t">>}

SameLetter(c, d) == c = d \/ <<c, d>> \in CasePairs \/ <<d, c>> \in CasePairs

Blank(query) == \A k \in 1..Len(query) : query[k] = " "

\* the query without the blanks around it
Trimmed(query) ==
    LET inked == {k \in 1..Len(query) : query[k] # " "}
    IN IF inked = {} THEN <<>>
       ELSE SubSeq(query, CHOOSE k \in inked : \A j \in inked : k <= j,
                   CHOOSE k \in inked : \A j \in inked : k >= j)

\* str contains q, letter case aside
Contains(str, q) ==
    \E k \in 0..(Len(str) - Len(q)) :
        \A j \in 1..Len(q) : SameLetter(str[k + j], q[j])

Positions ==
    {p \in (0..(Len(chunks) - 1)) \X (0..MaxWords) :
        p[2] < Len(chunks[p[1] + 1])}

WordOf(p) == chunks[p[1] + 1][p[2] + 1]

Before(m, n) ==
    \/ m.chunkIndex < n.chunkIndex
    \/ m.chunkIndex = n.chunkIndex /\ m.wordIndex < n.wordIndex

\* C26: runQuery(q) for a non-blank q yields exactly the positions whose
\* word contains the trimmed q as a case-insensitive substring, each once,
\* in strictly increasing (chunkIndex, wordIndex) order, each with that
\* word's start time.
C26_RunQueryMatches ==
    \A query \in QueryInputs :
        ~Blank(query) =>
            LET ms == RunSearch(App, query).s.searchMatches
            IN /\ \A i \in 1..Len(ms) :
                     /\ <<ms[i].chunkIndex, ms[i].wordIndex>> \in Positions
                     /\ Contains(WordOf(<<ms[i].chunkIndex,
                                          ms[i].wordIndex>>).word,
                                 Trimmed(query))
                     /\ ms[i].start =
                           WordOf(<<ms[i].chunkIndex, ms[i].wordIndex>>).start
               /\ \A p \in Positions :
                     Contains(WordOf(p).word, Trimmed(query))
                        => \E i \in 1..Len(ms) :
                              /\ ms[i].chunkIndex = p[1]
                              /\ ms[i].wordIndex = p[2]
               /\ \A i, j \in 1..Len(ms) : i < j => Before(ms[i], ms[j])

\* a query has found matches in more than one chunk
C26_Witness ==
    /\ Len(search.searchMatches) >= 3
    /\ \E i, j \in 1..Len(search.searchMatches) :
          search.searchMatches[i].chunkIndex
             # search.searchMatches[j].chunkIndex

\* C27: after runQuery with an empty or blank query the match list is
\* empty, the cursor is unset and no span carries a match or current
\* highlight, whatever matches and highlights existed before; the call
\* neither seeks nor changes the shown chunk.
C27_BlankQueryClears ==
    \A query \in QueryInputs :
        Blank(query) =>
            LET a == RunSearch(App, query)
            IN /\ a.s.searchMatches = <<>>
               /\ a.s.searchCurrent = -1
               /\ \A k \in 1..Len(a.r.classList) :
                     a.r.classList[k] \cap SearchClasses = {}
               /\ a.w = World
               /\ a.r.currentChunkIndex = paged.currentChunkIndex
               /\ a.r.wordSpans = paged.wordSpans
               /\ a.r.started = paged.started

\* there are matches, and spans carry both highlights
C27_Witness ==
    /\ Len(search.searchMatches) >= 2
    /\ \E k \in 1..Len(paged.classList) :
          "search-current" \in paged.classList[k]
    /\ \E k \in 1..Len(paged.classList) :
          /\ "search-match" \in paged.classList[k]
          /\ "search-current" \notin paged.classList[k]

\* C28: navigate(+1 or -1) moves the cursor cyclically over the match list
\* and is a no-op when there are no matches; after any sequence of runQuery
\* and navigate calls the cursor is a valid index into the match list when
\* the list is non-empty and unset when it is empty.
Cyclic(cur, direction, n) ==
    IF direction = 1 THEN (IF cur = n - 1 THEN 0 ELSE cur + 1)
    ELSE (IF cur = 0 THEN n - 1 ELSE cur - 1)

C28_CursorCyclicAndValid ==
    /\ Len(search.searchMatches) > 0
          => search.searchCurrent \in 0..(Len(search.searchMatches) - 1)
    /\ Len(search.searchMatches) = 0 => search.searchCurrent = -1
    /\ \A direction \in {0 - 1, 1} :
          LET a == SearchNav(App, direction)
          IN /\ Len(search.searchMatches) = 0 => a = App
             /\ Len(search.searchMatches) > 0
                   => /\ a.s.searchMatches = search.searchMatches
                      /\ a.s.searchCurrent =
                            Cyclic(search.searchCurrent, direction,
                                   Len(search.searchMatches))

\* the cursor is on the last of several matches
C28_Witness ==
    /\ Len(search.searchMatches) >= 2
    /\ search.searchCurrent = Len(search.searchMatches) - 1

\* the highlights are on the spans of chunk c, as goToMatch(i) is to leave
\* them
MarkedFor(r, ms, i) ==
    LET c == ms[i + 1].chunkIndex
    IN /\ r.wordSpans = c
       /\ \A k \in 1..Len(r.classList) :
             /\ "search-match" \in r.classList[k]
                   <=> \E j \in 1..Len(ms) :
                          ms[j].chunkIndex = c /\ ms[j].wordIndex = k - 1
             /\ "search-current" \in r.classList[k]
                   <=> ms[i + 1].wordIndex = k - 1

\* C29: goToMatch(i) seeks to max(0, match.startTime - 0.3), has the
\* renderer show the match's chunk, and then highlights - after which
\* every match located in that chunk is marked as a match on its own
\* word's span, exactly match i is marked current, and no span of another
\* chunk is marked.
C29_GoToMatchHighlights ==
    \A i \in 0..(Len(search.searchMatches) - 1) :
        audio =>
            LET a == GoToSearchMatch(App, i)
            IN /\ a.w.pos = Clamp(Max(0, search.searchMatches[i + 1].start
                                            - LeadIn), duration)
               /\ MarkedFor(a.r, search.searchMatches, i)

\* the same, for a call that leaves the spans of the match's chunk in the
\* container
C29_MarkedWhenShown ==
    \A i \in 0..(Len(search.searchMatches) - 1) :
        audio =>
            LET a == GoToSearchMatch(App, i)
            IN /\ a.w.pos = Clamp(Max(0, search.searchMatches[i + 1].start
                                            - LeadIn), duration)
               /\ a.r.wordSpans = search.searchMatches[i + 1].chunkIndex
                     => MarkedFor(a.r, search.searchMatches, i)

\* C30: a renderer whose container is missing degrades to a silent no-op:
\* showChunk, updateTime, applySettings and build on a renderer constructed
\* with no container raise no error and change nothing.
C30_DetachedIsSilentNoOp ==
    /\ ~paged.container => [paged EXCEPT !.settings = 0] = Renderer(FALSE)
    /\ ~tele.container => tele = Teleprompter(FALSE)

\* the same, for the calls that reach no use of the container: showChunk
\* of the index already current, updateTime outside every chunk, settings
\* without a font size, updateTime before build
C30_SilentWithoutContainerUse ==
    /\ ~paged.container =>
          /\ ShowChunk(paged, paged.currentChunkIndex, TRUE) = paged
          /\ paged.currentChunkIndex = -1 =>
                PagedUpdateTime(paged, 0, 0 - 1, One) = paged
          /\ [ApplySettings(paged, 0) EXCEPT !.settings = paged.settings]
                = paged
    /\ ~tele.container =>
          /\ TeleUpdateTime(tele, 0, 0) = tele
          /\ TeleApplySettings(tele, 0) = tele

\* ------------------------------------------------------------------------
\* C31 Display consistency of the paged renderer: in every reachable state
\*     with no transition in progress and no transition timeout pending,
\*     the rendered word spans are exactly the words of
\*     chunks[currentChunkIndex], and there are no spans when
\*     currentChunkIndex is -1.
\* ------------------------------------------------------------------------
C31_DisplayConsistent ==
    (~paged.transitioning /\ paged.timers = <<>>)
        => /\ paged.wordSpans = paged.currentChunkIndex
           /\ Len(paged.classList) =
                 (IF paged.currentChunkIndex < 0 THEN 0
                  ELSE Len(PagedChunks[paged.currentChunkIndex + 1]))

\* what does hold: as long as no transition has begun, the spans are those
\* of the current chunk
C31_ConsistentBeforeTransitions ==
    paged.started = 0
        => /\ paged.wordSpans = paged.currentChunkIndex
           /\ Len(paged.classList) =
                 (IF paged.currentChunkIndex < 0 THEN 0
                  ELSE Len(PagedChunks[paged.currentChunkIndex + 1]))

\* ------------------------------------------------------------------------
\* C34 Auto-scroll cannot be suppressed forever: in every reachable state
\*     of the continuous renderer - also after destroy() during a throttle
\*     window followed by build() - whenever the scroll-throttle flag is
\*     set, a timeout is pending that will clear it.
\* ------------------------------------------------------------------------
C34_ThrottleFlagHasTimer ==
    tele.scrollThrottleTimer => tele.throttleLeft # NoTimer

\* what does hold: a renderer that was never destroyed inside a throttle
\* window has a timeout pending whenever the flag is set, and a pending
\* timeout always has its flag
C34_TimerHasFlag ==
    tele.throttleLeft # NoTimer => tele.scrollThrottleTimer

\* ------------------------------------------------------------------------
\* C35 In every reachable state of the engine the stored activeChunkIndex
\*     is -1 or a valid index into the current chunk list, and
\*     activeWordIndex is -1 or a valid index into that chunk - also right
\*     after setTimestamps has replaced the list with a shorter one.
\*     Stated for the states in which no call into the engine is under
\*     way, where _updateTime is not half-way through its assignments.
\* ------------------------------------------------------------------------
C35_ActiveIndicesValid ==
    Idle =>
    /\ activeChunkIndex = -1 \/ activeChunkIndex \in 0..(Len(chunks) - 1)
    /\ activeWordIndex = -1
          \/ (/\ activeChunkIndex \in 0..(Len(chunks) - 1)
              /\ activeWordIndex \in
                    0..(Len(chunks[activeChunkIndex + 1]) - 1))

\* ------------------------------------------------------------------------
\* C36 isPlaying is true only while audio is loaded: in every reachable
\*     state with no audio (before loadAudio or after destroy()) isPlaying
\*     is false, so that the first toggle() after a later loadAudio starts
\*     playback.
\* ------------------------------------------------------------------------
C36_PlayingOnlyWithAudio ==
    /\ ~audio => ~playing
    /\ (audio /\ ~mediaPlaying /\ Idle)
          => Toggle(Enter(World)).mediaPlaying

\* what does hold: the media element plays only while the flag is set
C36_MediaPlaysOnlyWhenFlagged ==
    mediaPlaying => playing

\* ------------------------------------------------------------------------
\* C37 seekToChunk(index) is a no-op for an index outside the chunk list,
\*     and for a valid index of a non-empty chunk whose start lies within
\*     [0, duration] it makes that chunk the active chunk: activeChunkIndex
\*     is index when the call returns.
\* ------------------------------------------------------------------------
C37_SeekToChunkActivates ==
    Idle =>
        \A index \in ChunkInputs :
            LET w == Returned(SeekToChunk(Enter(World), index))
            IN IF index < 0 \/ index >= Len(chunks)
               THEN w = Enter(World)
               ELSE (/\ Len(chunks[index + 1]) > 0
                     /\ ChunkStart(chunks[index + 1]) >= 0
                     /\ ChunkStart(chunks[index + 1]) <= duration)
                        => w.activeChunkIndex = index

\* what does hold: the call is a no-op for an index outside the list, and
\* for a valid one the active chunk is the first chunk whose window holds
\* the start of chunk index
C37_SeekToChunkFirstWindow ==
    Idle =>
        \A index \in ChunkInputs :
            LET w == Returned(SeekToChunk(Enter(World), index))
            IN IF index < 0 \/ index >= Len(chunks)
               THEN w = Enter(World)
               ELSE (/\ Len(chunks[index + 1]) > 0
                     /\ ChunkStart(chunks[index + 1]) >= 0
                     /\ ChunkStart(chunks[index + 1]) <= duration)
                        => /\ w.activeChunkIndex =
                                Lowest(Windows(ChunkStart(chunks[index + 1])))
                           /\ w.activeChunkIndex <= index

\* ------------------------------------------------------------------------
\* C33 Project reload shows the new data: when loadProject(audioUrl,
\*     timestamps, formatting) resolves, the paged renderer displays the
\*     words of chunk 0 of the newly delivered timestamps, whatever chunk
\*     of whatever previous project was displayed before the call.
\* ------------------------------------------------------------------------
C33_ReloadShowsNewChunk ==
    (Idle /\ audio /\ metaPending /\ promise = "pending")
        => LET a == LoadProjectResumes(AppEnter)
           IN /\ a.r.wordSpans = ListFirst(a.r.chunks)
              /\ Len(a.r.classList) = Len(a.w.chunks[1])

\* what does hold: the first chunk of the new data is displayed when the
\* renderer's current index was not 0 at the time the load resolved and no
\* transition callback is outstanding
C33_ShownUnlessIndexZero ==
    (/\ Idle /\ audio /\ metaPending /\ promise = "pending"
     /\ paged.currentChunkIndex # 0)
        => LET a == LoadProjectResumes(AppEnter)
           IN /\ a.r.wordSpans = ListFirst(a.r.chunks)
              /\ Len(a.r.classList) = Len(a.w.chunks[1])

\* ------------------------------------------------------------------------
\* C38 Every entry of the search match list refers to an existing
\*     (chunkIndex, wordIndex) of the chunk data the engine holds, in every
\*     reachable state - also after the chunk data has been replaced by a
\*     load while a non-empty match list exists.
\* ------------------------------------------------------------------------
C38_MatchesReferToChunks ==
    \A k \in 1..Len(search.searchMatches) :
        LET m == search.searchMatches[k]
        IN /\ m.chunkIndex \in 0..(Len(chunks) - 1)
           /\ m.wordIndex \in 0..(Len(chunks[m.chunkIndex + 1]) - 1)

\* what does hold: the list _runSearch builds refers to the chunk data of
\* the time of the search
C38_FreshMatchesReferToChunks ==
    Idle =>
        \A query \in QueryInputs :
            LET a == RunSearch(AppEnter, query)
            IN \A k \in 1..Len(a.s.searchMatches) :
                  LET m == a.s.searchMatches[k]
                  IN /\ m.chunkIndex \in 0..(Len(chunks) - 1)
                     /\ m.wordIndex \in
                           0..(Len(chunks[m.chunkIndex + 1]) - 1)

\* ------------------------------------------------------------------------
\* C32 Search navigation settles on the matched chunk: after goToMatch(i)
\*     has returned and every pending transition callback and fallback
\*     timeout has fired, with no tick in between, the paged renderer
\*     displays the chunk of match i and the match and current highlights
\*     are on that chunk's spans.  Stated for a project whose audio has
\*     loaded.
\* ------------------------------------------------------------------------
C32_NavigationSettles ==
    \A i \in 0..(Len(search.searchMatches) - 1) :
        (audio /\ ~metaPending) =>
            LET a == GoToSearchMatch(App, i)
            IN \A r \in {SettleTimersFirst(a.r), SettleEventsFirst(a.r)} :
                  /\ r.wordSpans = search.searchMatches[i + 1].chunkIndex
                  /\ MarkedFor(r, search.searchMatches, i)

\* ------------------------------------------------------------------------
\* C39 Cancel is final: after the user has cancelled processing (state
\*     IDLE, upload section shown), no progress, complete or error event of
\*     the cancelled job's stream moves the page to PROCESSING or PLAYING
\*     or loads a project.
\* ------------------------------------------------------------------------
C39_CancelIsFinal ==
    \A j \in 1..Len(upload.jobs) :
        (/\ upload.state = "idle"
         /\ upload.section = "upload"
         /\ upload.jobs[j].cancelled
         /\ upload.jobs[j].phase = "open")
            => \A a \in {OnProgressEvent(AppEnter, j),
                         OnCompleteEvent(AppEnter, j),
                         DispatchError(AppEnter, j, TRUE)} :
                  /\ a.u.state = "idle"
                  /\ a.u.section = "upload"
                  /\ a.w = Enter(World)
                  /\ a.r = paged

\* what does hold: an error event of the cancelled job leaves the page
\* idle and loads nothing
C39_ErrorAfterCancelKeepsIdle ==
    \A j \in 1..Len(upload.jobs) :
        (/\ upload.state = "idle"
         /\ upload.section = "upload"
         /\ upload.jobs[j].cancelled
         /\ upload.jobs[j].phase = "open")
            => \A a \in {DispatchError(AppEnter, j, TRUE),
                         DispatchError(AppEnter, j, FALSE)} :
                  /\ a.u.state = "idle"
                  /\ a.u.section = "upload"
                  /\ a.w = Enter(World)
                  /\ a.r = paged

\* ------------------------------------------------------------------------
\* C40 For each processing job the upload layer invokes at most one
\*     terminal callback - onComplete or onError, never both and never
\*     twice - under any order of progress, complete and error events and
\*     connection errors, and it invokes no onProgress after the terminal
\*     callback.
\* ------------------------------------------------------------------------
C40_OneTerminalCallback ==
    \A j \in 1..Len(upload.jobs) :
        /\ upload.jobs[j].completes + upload.jobs[j].errors <= 1
        /\ ~upload.jobs[j].late
        /\ upload.jobs[j].phase \in {"posting", "open"}
              => upload.jobs[j].completes + upload.jobs[j].errors = 0
        /\ \A message \in BOOLEAN :
              upload.jobs[j].phase = "open"
                 => LET a == DispatchError(AppEnter, j, message)
                    IN /\ a.u.jobs[j].errors = 1
                       /\ a.u.jobs[j].completes = 0
                       /\ a.u.jobs[j].phase = "closed"

\* one job ended with an error event sent by the server, which reached
\* both error listeners, and another one with complete
C40_Witness ==
    /\ \E j \in 1..Len(upload.jobs) :
          /\ upload.jobs[j].errors = 1
          /\ upload.jobs[j].finished
    /\ \E k \in 1..Len(upload.jobs) : upload.jobs[k].completes = 1

====
